---- MODULE Spec2Model ----
(***************************************************************************)
(* Polymarket price collector: the price store (market_prices, its         *)
(* ON CONFLICT DO NOTHING inserts and the update_price_extremes trigger),  *)
(* the quote client (fetchTokenPrice), the collection run (collectPrices), *)
(* the liveness query (getActiveGames), the frequency decision             *)
(* (shouldUseHighFrequency), the scheduler loop with the process's signal  *)
(* and error handlers, and the one-shot entry point (main).                *)
(*                                                                         *)
(* Prices are counted in units of the column's scale (DECIMAL(18,8)), so a *)
(* price is an integer; NaN is the one non-numeric value a JavaScript      *)
(* number and a PostgreSQL numeric both hold, and the JavaScript numbers   *)
(* the column cannot hold as they are have codes.  Times are milliseconds. *)
(***************************************************************************)
EXTENDS Integers, Sequences, FiniteSets, TLC

VARIABLES
  market_prices,          \* the observation relation, in insertion (id) order
  market_price_extremes,  \* the extremes relation: <<condition_id, token_id>> -> record
  lastWrite,              \* history: the last store call and the rows it skipped on conflict
  redelivery,             \* a batch whose delivery is about to be repeated, or <<>>
  games,                  \* the catalog table games (read only)
  now,                    \* the clock, in milliseconds
  pc,                     \* what collectPrices is waiting for
  activeGames,            \* const games = await getActiveGames()
  cursor,                 \* the outcome being requested, counted over the nested loops
  priceRecords,           \* the batch being assembled
  timestamp,              \* const timestamp = new Date()
  requestCount, successCount, failureCount,
  attempts,               \* the HTTP requests of the current fetchTokenPrice call
  rateLimited,            \* history: 429 responses received in this run
  query,                  \* the database query being awaited: "none", "sent" or "refused"
  spc,                    \* what the scheduler loop (or main) is waiting for
  frequencyCheck,         \* const frequencyCheck = await shouldUseHighFrequency()
  cycleStart,             \* const cycleStart = Date.now()
  runCount,               \* let runCount
  pool,                   \* the connection pool: "open", "ending" (pool.end() called) or "ended"
  closing,                \* the calls of close() not yet settled, with what follows them
  closeCalls,             \* history: calls of close()
  exitCode,               \* the process's exit code, NoExit while it runs
  exitRoute               \* history: the handler that ended the process

storeVars == <<market_prices, market_price_extremes, lastWrite, redelivery>>
runVars == <<games, now, pc, activeGames, cursor, priceRecords, timestamp,
             requestCount, successCount, failureCount, attempts, rateLimited,
             query>>
procVars == <<spc, frequencyCheck, cycleStart, runCount, pool, closing,
              closeCalls, exitCode, exitRoute>>
vars == <<market_prices, market_price_extremes, lastWrite, redelivery,
          games, now, pc, activeGames, cursor, priceRecords, timestamp,
          requestCount, successCount, failureCount, attempts, rateLimited,
          query, spc, frequencyCheck, cycleStart, runCount, pool, closing,
          closeCalls, exitCode, exitRoute>>

-----------------------------------------------------------------------------
(* Bounds of the model *)

MaxPrice == 1     \* prices offered to the store are 0..MaxPrice
MaxTs == 2        \* timestamps offered to the store are 1..MaxTs
MaxBatch == 2     \* longest batch handed to batchInsertPrices
MaxRows == 3      \* the store's actions stop once market_prices holds this many rows

-----------------------------------------------------------------------------
(* Values *)

NULL == "NULL"                      \* SQL NULL / JavaScript undefined, for text fields
NaN == 0 - 1                        \* the numeric NaN (parseFloat of a non-number)

ConditionIds == {"c1", "c2"}
TokenIds == {"t1", "t2"}
Keys == {<<"c1", "t1">>, <<"c2", "t2">>}
Prices == 0..MaxPrice
Timestamps == 1..MaxTs

\* PostgreSQL's ordering of numeric: NaN equals NaN and is greater than every number.
PgLess(a, b) == IF a = NaN THEN FALSE ELSE IF b = NaN THEN TRUE ELSE a < b

PgGreater(a, b) == PgLess(b, a)

Min(a, b) == IF a < b THEN a ELSE b

ONE == 100000000                    \* the price 1, in units of the column's scale

\* JavaScript numbers that are not a whole number of units, or too many to
\* count, have a code of their own, as NaN has.
JustAboveOne == 0 - 3               \* 1.000000004
TenBillion == 0 - 4                 \* 1e10

\* A mutation of the column: a value outside 0..1 is stored as the nearer bound.
ToNumeric_Clamped(x) ==
  IF x = NaN THEN NaN
  ELSE IF x = JustAboveOne \/ x = TenBillion \/ x > ONE THEN ONE
       ELSE IF x < 0 THEN 0 ELSE x

\* A value assigned to a DECIMAL(18, 8) column is rounded to 8 decimal places.
ToNumeric(x) == IF x = JustAboveOne THEN ONE ELSE x

\* "numeric field overflow": DECIMAL(18, 8) holds absolute values below 10^10.
NumericOverflow(x) == x = TenBillion

KeyOf(r) == <<r.condition_id, r.token_id>>

-----------------------------------------------------------------------------
(* The price store *)

\* A mutation of the CASE condition: the comparison is the wrong way round.
LowerThanLowest_Flipped(price, lowest_price) == PgGreater(price, lowest_price)

\* A mutation of the CASE condition: every insert overwrites the lowest price.
LowerThanLowest_Always(price, lowest_price) == TRUE

\* WHEN NEW.price < market_price_extremes.lowest_price
LowerThanLowest(price, lowest_price) == PgLess(price, lowest_price)

\* A mutation of the CASE condition: the highest price is never raised.
HigherThanHighest_Never(price, highest_price) == FALSE

\* WHEN NEW.price > market_price_extremes.highest_price
HigherThanHighest(price, highest_price) == PgGreater(price, highest_price)

\* A mutation of the trigger function: first_recorded is the earliest
\* timestamp among the inserted rows of the key.
update_price_extremes_FirstIsEarliest(mpe, new) ==
  LET k == <<new.condition_id, new.token_id>> IN
  IF k \notin DOMAIN mpe
  THEN mpe @@ (k :> [outcome |-> new.outcome,
                     lowest_price |-> new.price,
                     lowest_price_timestamp |-> new.timestamp,
                     highest_price |-> new.price,
                     highest_price_timestamp |-> new.timestamp,
                     current_price |-> new.price,
                     current_price_timestamp |-> new.timestamp,
                     first_recorded |-> new.timestamp])
  ELSE LET old == mpe[k] IN
       [mpe EXCEPT ![k] =
          [outcome |-> old.outcome,
           lowest_price |-> IF LowerThanLowest(new.price, old.lowest_price)
                            THEN new.price ELSE old.lowest_price,
           lowest_price_timestamp |-> IF LowerThanLowest(new.price, old.lowest_price)
                                      THEN new.timestamp
                                      ELSE old.lowest_price_timestamp,
           highest_price |-> IF HigherThanHighest(new.price, old.highest_price)
                             THEN new.price ELSE old.highest_price,
           highest_price_timestamp |-> IF HigherThanHighest(new.price, old.highest_price)
                                       THEN new.timestamp
                                       ELSE old.highest_price_timestamp,
           current_price |-> new.price,
           current_price_timestamp |-> new.timestamp,
           first_recorded |-> Min(old.first_recorded, new.timestamp)]]

\* A mutation of the trigger function: the timestamps of the lowest and the
\* highest price are set from every inserted row, whether its price wins the
\* comparison or not.
update_price_extremes_StampsEveryRow(mpe, new) ==
  LET k == <<new.condition_id, new.token_id>> IN
  IF k \notin DOMAIN mpe
  THEN mpe @@ (k :> [outcome |-> new.outcome,
                     lowest_price |-> new.price,
                     lowest_price_timestamp |-> new.timestamp,
                     highest_price |-> new.price,
                     highest_price_timestamp |-> new.timestamp,
                     current_price |-> new.price,
                     current_price_timestamp |-> new.timestamp,
                     first_recorded |-> new.timestamp])
  ELSE LET old == mpe[k] IN
       [mpe EXCEPT ![k] =
          [outcome |-> old.outcome,
           lowest_price |-> IF LowerThanLowest(new.price, old.lowest_price)
                            THEN new.price ELSE old.lowest_price,
           lowest_price_timestamp |-> new.timestamp,
           highest_price |-> IF HigherThanHighest(new.price, old.highest_price)
                             THEN new.price ELSE old.highest_price,
           highest_price_timestamp |-> new.timestamp,
           current_price |-> new.price,
           current_price_timestamp |-> new.timestamp,
           first_recorded |-> old.first_recorded]]

\* A mutation of the trigger: the current price follows the latest timestamp,
\* not the latest insert.
update_price_extremes_CurrentByTimestamp(mpe, new) ==
  LET k == <<new.condition_id, new.token_id>> IN
  IF k \notin DOMAIN mpe
  THEN mpe @@ (k :> [outcome |-> new.outcome,
                     lowest_price |-> new.price,
                     lowest_price_timestamp |-> new.timestamp,
                     highest_price |-> new.price,
                     highest_price_timestamp |-> new.timestamp,
                     current_price |-> new.price,
                     current_price_timestamp |-> new.timestamp,
                     first_recorded |-> new.timestamp])
  ELSE LET old == mpe[k]
           newer == new.timestamp > old.current_price_timestamp
       IN
       [mpe EXCEPT ![k] =
          [outcome |-> old.outcome,
           lowest_price |-> IF LowerThanLowest(new.price, old.lowest_price)
                            THEN new.price ELSE old.lowest_price,
           lowest_price_timestamp |-> IF LowerThanLowest(new.price, old.lowest_price)
                                      THEN new.timestamp
                                      ELSE old.lowest_price_timestamp,
           highest_price |-> IF HigherThanHighest(new.price, old.highest_price)
                             THEN new.price ELSE old.highest_price,
           highest_price_timestamp |-> IF HigherThanHighest(new.price, old.highest_price)
                                       THEN new.timestamp
                                       ELSE old.highest_price_timestamp,
           current_price |-> IF newer THEN new.price ELSE old.current_price,
           current_price_timestamp |-> IF newer THEN new.timestamp
                                       ELSE old.current_price_timestamp,
           first_recorded |-> old.first_recorded]]

\* The trigger function: INSERT INTO market_price_extremes ... ON CONFLICT
\* (condition_id, token_id) DO UPDATE SET ...  Every right-hand side of the SET
\* list reads the row as it was before the update.  (last_updated = NOW() is
\* not kept: nothing reads it.)
update_price_extremes(mpe, new) ==
  LET k == <<new.condition_id, new.token_id>> IN
  IF k \notin DOMAIN mpe
  THEN mpe @@ (k :> [outcome |-> new.outcome,
                     lowest_price |-> new.price,
                     lowest_price_timestamp |-> new.timestamp,
                     highest_price |-> new.price,
                     highest_price_timestamp |-> new.timestamp,
                     current_price |-> new.price,
                     current_price_timestamp |-> new.timestamp,
                     first_recorded |-> new.timestamp])
  ELSE LET old == mpe[k] IN
       [mpe EXCEPT ![k] =
          [outcome |-> old.outcome,
           lowest_price |-> IF LowerThanLowest(new.price, old.lowest_price)
                            THEN new.price ELSE old.lowest_price,
           lowest_price_timestamp |-> IF LowerThanLowest(new.price, old.lowest_price)
                                      THEN new.timestamp
                                      ELSE old.lowest_price_timestamp,
           highest_price |-> IF HigherThanHighest(new.price, old.highest_price)
                             THEN new.price ELSE old.highest_price,
           highest_price_timestamp |-> IF HigherThanHighest(new.price, old.highest_price)
                                       THEN new.timestamp
                                       ELSE old.highest_price_timestamp,
           current_price |-> new.price,
           current_price_timestamp |-> new.timestamp,
           first_recorded |-> old.first_recorded]]

\* A mutation of the conflict rule: no row ever conflicts.
Conflicts_Never(mp, new) == FALSE

\* UNIQUE(condition_id, token_id, timestamp): new conflicts with a stored row.
Conflicts(mp, new) ==
  \E i \in 1..Len(mp) : /\ mp[i].condition_id = new.condition_id
                        /\ mp[i].token_id = new.token_id
                        /\ mp[i].timestamp = new.timestamp

\* A mutation of the insert: the conflict rule is DO UPDATE, and a row that
\* conflicts takes the place of the stored one.
InsertRow_ConflictOverwrites(db, new) ==
  IF Conflicts(db.market_prices, new)
  THEN [market_prices |->
          [i \in 1..Len(db.market_prices) |->
             IF KeyOf(db.market_prices[i]) = KeyOf(new)
                /\ db.market_prices[i].timestamp = new.timestamp
             THEN new ELSE db.market_prices[i]],
        market_price_extremes |-> db.market_price_extremes]
  ELSE [market_prices |-> Append(db.market_prices, new),
        market_price_extremes |-> update_price_extremes(db.market_price_extremes, new)]

\* A mutation of the insert: the trigger is missing, rows are stored alone.
InsertRow_NoTrigger(db, new) ==
  IF Conflicts(db.market_prices, new)
  THEN db
  ELSE [market_prices |-> Append(db.market_prices, new),
        market_price_extremes |-> db.market_price_extremes]

\* A mutation of the insert: the trigger is a BEFORE INSERT trigger, which also
\* fires for a row that the conflict rule then skips.
InsertRow_TriggerBefore(db, new) ==
  [market_prices |-> IF Conflicts(db.market_prices, new)
                     THEN db.market_prices
                     ELSE Append(db.market_prices, new),
   market_price_extremes |-> update_price_extremes(db.market_price_extremes, new)]

\* A mutation of the insert: a row skipped by the conflict rule still becomes
\* the current price of its key.
InsertRow_SkippedSetsCurrent(db, new) ==
  IF Conflicts(db.market_prices, new)
  THEN [market_prices |-> db.market_prices,
        market_price_extremes |->
          [db.market_price_extremes EXCEPT ![KeyOf(new)].current_price = new.price]]
  ELSE [market_prices |-> Append(db.market_prices, new),
        market_price_extremes |-> update_price_extremes(db.market_price_extremes, new)]

\* One row (new) of INSERT INTO market_prices ... ON CONFLICT (condition_id,
\* token_id, timestamp) DO NOTHING, with trigger_update_price_extremes AFTER
\* INSERT FOR EACH ROW: a conflicting row is skipped and fires no trigger.
\* (The columns id and created_at are not kept: market_prices is a sequence in
\* id order.)
InsertRow(db, new) ==
  IF Conflicts(db.market_prices, new)
  THEN db
  ELSE [market_prices |-> Append(db.market_prices, new),
        market_price_extremes |-> update_price_extremes(db.market_price_extremes, new)]

\* A mutation of the statement: conflicts are looked up in the table as it was
\* before the statement, so a key repeated inside one batch is stored twice.
RECURSIVE InsertRows_SnapshotConflicts(_, _)
InsertRows_SnapshotConflicts(db, rows) ==
  LET fresh == SelectSeq(rows, LAMBDA r : ~Conflicts(db.market_prices, r))
      RECURSIVE Triggers(_, _)
      Triggers(mpe, rs) == IF rs = <<>> THEN mpe
                           ELSE Triggers(update_price_extremes(mpe, Head(rs)), Tail(rs))
  IN [market_prices |-> db.market_prices \o fresh,
      market_price_extremes |-> Triggers(db.market_price_extremes, fresh)]

\* The rows of one INSERT statement, in VALUES order; a row also conflicts with
\* an earlier row of the same statement.
RECURSIVE InsertRows(_, _)
InsertRows(db, rows) ==
  IF rows = <<>> THEN db
  ELSE InsertRows(InsertRow(db, Head(rows)), Tail(rows))

\* The parameters sent for one element: price.source || "rest".
ToRow(p) ==
  [condition_id |-> p.conditionId,
   token_id |-> p.tokenId,
   outcome |-> p.outcome,
   price |-> ToNumeric(p.price),
   timestamp |-> p.timestamp,
   source |-> IF p.source = NULL THEN "rest" ELSE p.source]

ToRows(prices) == [i \in 1..Len(prices) |-> ToRow(prices[i])]

\* The INSERT statement fails as a whole, and stores nothing, when a price
\* does not fit the column.
Rejected(prices) == \E i \in 1..Len(prices) : NumericOverflow(prices[i].price)

\* batchInsertPrices as a function of the store: nothing for an empty array,
\* otherwise one multi-row INSERT.
batchInsertPricesResult(db, prices) ==
  IF Len(prices) = 0 THEN db ELSE InsertRows(db, ToRows(prices))

\* insertPrice as a function of the store: a single-row INSERT.
insertPriceResult(db, data) == InsertRow(db, ToRow(data))

Store == [market_prices |-> market_prices,
          market_price_extremes |-> market_price_extremes]

\* What a caller may pass for one observation.
PriceData(outcomes, sources) ==
  {p \in [conditionId : ConditionIds, tokenId : TokenIds, outcome : outcomes,
          price : Prices, timestamp : Timestamps, source : sources] :
     <<p.conditionId, p.tokenId>> \in Keys}

\* insertPrice has no caller in the repository; it is given the catalog's label
\* and no source.
InsertPriceInputs == PriceData({"Yes"}, {NULL})

\* batchInsertPrices is called by collectPrices, which passes the catalog's
\* label and source "rest" in every element.
BatchInputs == PriceData({"Yes"}, {"rest"})

\* The store's part of a call of insertPrice.
insertPriceCall(data) ==
  LET db == insertPriceResult(Store, data) IN
  /\ ~Rejected(<<data>>)
  /\ market_prices' = db.market_prices
  /\ market_price_extremes' = db.market_price_extremes
  /\ lastWrite' = [op |-> "insertPrice",
                   skipped |-> 1 - (Len(db.market_prices) - Len(market_prices))]

\* The store's part of a call of batchInsertPrices.
batchInsertPricesCall(prices, op) ==
  LET db == batchInsertPricesResult(Store, prices) IN
  /\ ~Rejected(prices)
  /\ market_prices' = db.market_prices
  /\ market_price_extremes' = db.market_price_extremes
  /\ lastWrite' = [op |-> op,
                   skipped |-> Len(prices) - (Len(db.market_prices) - Len(market_prices))]

insertPrice(data) ==
  /\ redelivery = <<>>
  /\ Len(market_prices) < MaxRows
  /\ insertPriceCall(data)
  /\ UNCHANGED <<redelivery, runVars, procVars>>

batchInsertPrices(prices) ==
  /\ redelivery = <<>>
  /\ Len(market_prices) + Len(prices) <= MaxRows
  /\ batchInsertPricesCall(prices, "batchInsertPrices")
  /\ UNCHANGED <<redelivery, runVars, procVars>>

\* A batch written once, to be written again (a re-delivered batch).
DeliverBatch(prices) ==
  /\ redelivery = <<>>
  /\ prices # <<>>
  /\ Len(market_prices) + Len(prices) <= MaxRows
  /\ batchInsertPricesCall(prices, "delivery")
  /\ redelivery' = prices
  /\ UNCHANGED <<runVars, procVars>>

\* The same batch written a second time.
RedeliverBatch ==
  /\ redelivery # <<>>
  /\ batchInsertPricesCall(redelivery, "redelivery")
  /\ redelivery' = <<>>
  /\ UNCHANGED <<runVars, procVars>>

\* A mutation of the rollback: the observations the failed statement had
\* inserted stay, the extremes go back.
Rollback_KeepsObservations(before, work) ==
  [market_prices |-> work.market_prices,
   market_price_extremes |-> before.market_price_extremes]

\* A statement that fails is undone as a whole: pool.query runs the INSERT as
\* one statement in its own transaction, triggers included.
Rollback(before, work) == before

\* The tables as the failing statement sees them when it fails in the
\* trigger of the last of rows: the rows before it are inserted with their
\* triggers fired, the last row is inserted (unless it conflicts) and its
\* trigger has changed nothing.  (The rows of the statement after the one
\* that fails are never reached.)
WorkAtFailure(db, rows) ==
  LET n == Len(rows)
      done == InsertRows(db, SubSeq(rows, 1, n - 1))
  IN IF ~Conflicts(done.market_prices, rows[n])
     THEN [market_prices |-> Append(done.market_prices, rows[n]),
           market_price_extremes |-> done.market_price_extremes]
     ELSE done

\* batchInsertPrices rejects: its INSERT fails at the last of the rows it
\* reaches, prices.
batchInsertPricesFails(prices) ==
  /\ redelivery = <<>>
  /\ Len(prices) >= 1
  /\ Len(market_prices) + Len(prices) <= MaxRows
  /\ LET work == WorkAtFailure(Store, ToRows(prices))
         db == Rollback(Store, work)
     IN /\ market_prices' = db.market_prices
        /\ market_price_extremes' = db.market_price_extremes
        /\ lastWrite' = [op |-> "failed", skipped |-> 0,
                         undone |-> Len(work.market_prices) - Len(market_prices)]
  /\ UNCHANGED <<redelivery, runVars, procVars>>

NoWrite == [op |-> "none", skipped |-> 0]

\* The tables as the migration creates them.
EmptyStore ==
  /\ market_prices = <<>>
  /\ market_price_extremes = <<>>
  /\ lastWrite = NoWrite
  /\ redelivery = <<>>

NoExit == 0 - 1
NoCheck == [highFrequency |-> FALSE, reason |-> "", nextGameStart |-> <<>>]

\* The pool as db.ts creates it, and no scheduler or main running.
NoProcess ==
  /\ spc = "none"
  /\ frequencyCheck = NoCheck
  /\ cycleStart = 0
  /\ runCount = 0
  /\ pool = "open"
  /\ closing = <<>>
  /\ closeCalls = 0
  /\ exitCode = NoExit
  /\ exitRoute = "none"

\* No run of the collector is under way.
Idle ==
  /\ games = {}
  /\ now = 0
  /\ pc = "idle"
  /\ activeGames = <<>>
  /\ cursor = 0
  /\ priceRecords = <<>>
  /\ timestamp = 0
  /\ requestCount = 0
  /\ successCount = 0
  /\ failureCount = 0
  /\ attempts = <<>>
  /\ rateLimited = 0
  /\ query = "none"
  /\ NoProcess

StoreInit == EmptyStore /\ Idle

StoreNext ==
  \/ \E data \in InsertPriceInputs : insertPrice(data)
  \/ \E n \in 0..Min(MaxBatch, MaxRows - Len(market_prices)) :
       \E prices \in [1..n -> BatchInputs] : batchInsertPrices(prices)

SpecStore == StoreInit /\ [][StoreNext]_vars

\* Single-row writes whose outcome label varies from row to row of a key.
LabelInputs == PriceData({"Yes", "No"}, {NULL})

LabelNext == \E data \in LabelInputs : insertPrice(data)

SpecLabel == StoreInit /\ [][LabelNext]_vars

RedeliverNext ==
  \/ \E data \in InsertPriceInputs : insertPrice(data)
  \/ \E n \in 1..Min(MaxBatch, MaxRows - Len(market_prices)) :
       \E prices \in [1..n -> BatchInputs] : DeliverBatch(prices)
  \/ RedeliverBatch

SpecRedeliver == StoreInit /\ [][RedeliverNext]_vars

\* Single-row writes while the longest batch still fits after them, then
\* one batch of two rows or more, whose rows are kept for comparison with the
\* same rows in another order.
PermuteNext ==
  \/ \E data \in InsertPriceInputs :
       Len(market_prices) + 1 + MaxBatch <= MaxRows /\ insertPrice(data)
  \/ \E n \in 2..Min(MaxBatch, MaxRows - Len(market_prices)) :
       \E prices \in [1..n -> BatchInputs] : DeliverBatch(prices)

SpecPermute == StoreInit /\ [][PermuteNext]_vars

\* Writes that succeed, row by row (a batch that succeeds leaves the tables
\* as the single-row writes of its rows do), and batches that fail.
FailingNext ==
  \/ \E data \in InsertPriceInputs : insertPrice(data)
  \/ \E n \in 1..Min(MaxBatch, MaxRows - Len(market_prices)) :
       \E prices \in [1..n -> BatchInputs] : batchInsertPricesFails(prices)

SpecFailing == StoreInit /\ [][FailingNext]_vars

-----------------------------------------------------------------------------
(* The catalog and the liveness query *)

HOURS_48 == 48 * 60 * 60 * 1000       \* INTERVAL '48 hours', in milliseconds

\* A games row: [id, start_date, end_date, closed, markets]; end_date is <<>>
\* for NULL and <<t>> otherwise; markets is the JSON list, <<>> also for NULL
\* (row.markets || []).  A market: [conditionId, sportsMarketType, outcomes],
\* outcomes <<>> also when the field is missing.  An outcome: [title, tokenID].

\* A mutation of the WHERE clause: the window test without its upper end.
Trackable_NoWindow(g, t) ==
  /\ g.closed = FALSE
  /\ \/ g.start_date <= t
     \/ g.start_date > t

\* end_date > NOW(), which is not true of an end_date that is NULL.
EndsAfter(g, t) == g.end_date # <<>> /\ g.end_date[1] > t

\* The WHERE clause of the earlier version of getActiveGames.
TrackableEarlier(g, t) ==
  /\ g.closed = FALSE
  /\ EndsAfter(g, t)
  /\ \/ (g.start_date <= t /\ EndsAfter(g, t))
     \/ (g.start_date > t /\ g.start_date < t + HOURS_48)

\* A mutation of the WHERE clause: a window of 96 hours.
Trackable_WiderWindow(g, t) ==
  /\ g.closed = FALSE
  /\ \/ g.start_date <= t
     \/ (g.start_date > t /\ g.start_date < t + HOURS_48 + HOURS_48)

\* WHERE closed = false AND (start_date <= NOW() OR (start_date > NOW() AND
\* start_date < NOW() + INTERVAL '48 hours'))
Trackable(g, t) ==
  /\ g.closed = FALSE
  /\ \/ g.start_date <= t
     \/ (g.start_date > t /\ g.start_date < t + HOURS_48)

\* ORDER BY start_date ASC: every order of rows that ascends in start_date.
OrderedByStart(rows) ==
  {f \in [1..Cardinality(rows) -> rows] :
     /\ \A i, j \in 1..Cardinality(rows) : i # j => f[i] # f[j]
     /\ \A i, j \in 1..Cardinality(rows) : i < j => f[i].start_date <= f[j].start_date}

\* A mutation of the filter: markets of every type are kept.
Moneyline_EveryType(markets) == markets

\* (row.markets || []).filter(market => market.sportsMarketType === 'moneyline')
Moneyline(markets) == SelectSeq(markets, LAMBDA m : m.sportsMarketType = "moneyline")

\* getActiveGames at time t: the result sets the query may return.
getActiveGames(table, t) ==
  {[i \in 1..Len(f) |-> [id |-> f[i].id, markets |-> Moneyline(f[i].markets)]] :
     f \in OrderedByStart({g \in table : Trackable(g, t)})}

-----------------------------------------------------------------------------
(* The quote client *)

RATE_LIMIT_PER_MINUTE == 90

\* A mutation of the delay: 60000 / 90 rounded down.
DELAY_BETWEEN_REQUESTS_Floor == 60000 \div RATE_LIMIT_PER_MINUTE

DELAY_BETWEEN_REQUESTS == (60000 + RATE_LIMIT_PER_MINUTE - 1) \div RATE_LIMIT_PER_MINUTE
RATE_LIMIT_WAIT == 30000              \* await sleep(30000)

MaxRateLimits == 2    \* 429 responses answered within one run

NoPrice == 0 - 2                      \* fetchTokenPrice returning null

\* JSON values of the fields price and mid.
Undefined == [kind |-> "undefined"]
JsonNull == [kind |-> "null"]
EmptyString == [kind |-> "string", text |-> ""]
NotANumber == [kind |-> "string", text |-> "abc"]
Decimal(p) == [kind |-> "string", text |-> "decimal", digits |-> p]

FieldValues == {Undefined, JsonNull, EmptyString, NotANumber} \cup {Decimal(p) : p \in Prices}

\* JavaScript truthiness of a field: undefined, null and "" are falsy, every
\* other string (also "0") is truthy.
Truthy(v) == v.kind = "string" /\ v.text # ""

\* data.price || data.mid
PriceOrMid(data) == IF Truthy(data.price) THEN data.price ELSE data.mid

\* parseFloat of a string: the number it starts with, NaN when it starts with none.
parseFloat(v) == IF v.kind = "string" /\ v.text = "decimal" THEN v.digits ELSE NaN

NoBody == [valid |-> FALSE]
Body(price, mid) == [valid |-> TRUE, price |-> price, mid |-> mid]

QuoteBodies ==
  {NoBody}
  \cup {Body(f, Undefined) : f \in FieldValues}
  \cup {Body(Undefined, f) : f \in FieldValues}
  \cup {Body(EmptyString, Decimal(p)) : p \in Prices}
  \cup {Body(Decimal(p), Decimal(q)) : p, q \in Prices}

NetworkError == [kind |-> "error", status |-> 0, body |-> NoBody]
Http(status, body) == [kind |-> "http", status |-> status, body |-> body]

Responses ==
  {NetworkError, Http(429, NoBody), Http(500, NoBody)}
  \cup {Http(200, b) : b \in QuoteBodies}

Pending == [kind |-> "pending", status |-> 0, body |-> NoBody]

ResponseOk(r) == r.kind = "http" /\ r.status >= 200 /\ r.status <= 299

\* A mutation of the client: a 429 is reported like any other bad status.
fetchTokenPriceOn_NoRetry(r) ==
  IF r.kind = "error" THEN [retry |-> FALSE, value |-> NoPrice]
  ELSE IF ~ResponseOk(r) THEN [retry |-> FALSE, value |-> NoPrice]
       ELSE IF ~r.body.valid THEN [retry |-> FALSE, value |-> NoPrice]
            ELSE LET price == PriceOrMid(r.body) IN
                 IF price = Undefined \/ price = JsonNull
                 THEN [retry |-> FALSE, value |-> NoPrice]
                 ELSE [retry |-> FALSE, value |-> parseFloat(price)]

\* A mutation of the client: every bad status is retried after the wait.
fetchTokenPriceOn_BadStatusRetries(r) ==
  IF r.kind = "error" THEN [retry |-> FALSE, value |-> NoPrice]
  ELSE IF ~ResponseOk(r) THEN [retry |-> TRUE, value |-> NoPrice]
       ELSE IF ~r.body.valid THEN [retry |-> FALSE, value |-> NoPrice]
            ELSE LET price == PriceOrMid(r.body) IN
                 IF price = Undefined \/ price = JsonNull
                 THEN [retry |-> FALSE, value |-> NoPrice]
                 ELSE [retry |-> FALSE, value |-> parseFloat(price)]

\* What fetchTokenPrice does with one response r of fetch(url): retry after
\* the wait, or return value.  A rejected fetch and a body that is not JSON
\* throw into the catch block.
fetchTokenPriceOn(r) ==
  IF r.kind = "error" THEN [retry |-> FALSE, value |-> NoPrice]
  ELSE IF ~ResponseOk(r)
       THEN IF r.status = 429 THEN [retry |-> TRUE, value |-> NoPrice]
            ELSE [retry |-> FALSE, value |-> NoPrice]
       ELSE IF ~r.body.valid THEN [retry |-> FALSE, value |-> NoPrice]
            ELSE LET price == PriceOrMid(r.body) IN
                 IF price = Undefined \/ price = JsonNull
                 THEN [retry |-> FALSE, value |-> NoPrice]
                 ELSE [retry |-> FALSE, value |-> parseFloat(price)]

-----------------------------------------------------------------------------
(* The collection run *)

REQUESTS_PER_PAUSE == 10              \* requestCount % 10 === 0

\* A mutation of the loop: an outcome without a token ID is requested too.
OutcomeRequests_KeepsTokenless(market) ==
  [i \in 1..Len(market.outcomes) |->
     [conditionId |-> market.conditionId,
      tokenID |-> market.outcomes[i].tokenID,
      title |-> market.outcomes[i].title]]

\* The requests of one market, in order: its outcomes that have a token ID
\* (an outcome whose tokenID is missing is skipped).
OutcomeRequests(market) ==
  LET withToken == SelectSeq(market.outcomes, LAMBDA o : o.tokenID # NULL) IN
  [i \in 1..Len(withToken) |->
     [conditionId |-> market.conditionId,
      tokenID |-> withToken[i].tokenID,
      title |-> withToken[i].title]]

RECURSIVE MarketRequests(_)
MarketRequests(markets) ==
  IF markets = <<>> THEN <<>>
  ELSE OutcomeRequests(Head(markets)) \o MarketRequests(Tail(markets))

\* The three nested loops of collectPrices, flattened: the requests of a run
\* over the listed games, in the order they are made.
RECURSIVE GameRequests(_)
GameRequests(listed) ==
  IF listed = <<>> THEN <<>>
  ELSE MarketRequests(Head(listed).markets) \o GameRequests(Tail(listed))

\* A query handed to the pool: pool.query rejects once pool.end() was called.
Issued == IF pool = "open" THEN "sent" ELSE "refused"

Attempt(tokenId, t) == [tokenId |-> tokenId, sentAt |-> t, response |-> Pending]

\* A mutation of the end of the loops: the batch write is issued whether the
\* batch holds a record or not.
Continue_WritesEmptyBatch(i) ==
  LET work == GameRequests(activeGames') IN
  /\ cursor' = i
  /\ IF i <= Len(work)
     THEN /\ attempts' = <<Attempt(work[i].tokenID, now')>>
          /\ pc' = "fetch"
     ELSE /\ attempts' = attempts
          /\ pc' = "batchInsertPrices"
  /\ query' = IF i > Len(work) THEN Issued ELSE "none"

\* A mutation of the loop: after a failed request the run raises instead of
\* going on.
Continue_StopsOnFailure(i) ==
  LET work == GameRequests(activeGames') IN
  /\ cursor' = i
  /\ IF failureCount > 0
     THEN /\ attempts' = attempts
          /\ pc' = "raised"
     ELSE IF i <= Len(work)
     THEN /\ attempts' = <<Attempt(work[i].tokenID, now')>>
          /\ pc' = "fetch"
     ELSE /\ attempts' = attempts
          /\ pc' = IF Len(priceRecords') > 0 THEN "batchInsertPrices" ELSE "returned"
  /\ query' = IF pc' = "batchInsertPrices" THEN Issued ELSE "none"

\* collectPrices from the i-th request on, up to its next await: the fetch
\* of that request, or past the loops the batch write, or the return when
\* nothing was collected.
Continue(i) ==
  LET work == GameRequests(activeGames') IN
  /\ cursor' = i
  /\ IF i <= Len(work)
     THEN /\ attempts' = <<Attempt(work[i].tokenID, now')>>
          /\ pc' = "fetch"
     ELSE /\ attempts' = attempts
          /\ pc' = IF Len(priceRecords') > 0 THEN "batchInsertPrices" ELSE "returned"
  /\ query' = IF i > Len(work) /\ Len(priceRecords') > 0 THEN Issued ELSE "none"

\* collectPrices up to its first await after getActiveGames has answered.
StartCollect ==
  /\ pc = "getActiveGames"
  /\ query = "sent"
  /\ \E result \in getActiveGames(games, now) :
       /\ activeGames' = result
       /\ now' = now
       /\ IF Len(result) = 0
          THEN /\ pc' = "returned"
               /\ query' = "none"
               /\ UNCHANGED <<cursor, priceRecords, timestamp, requestCount,
                              successCount, failureCount, attempts>>
          ELSE /\ priceRecords' = <<>>
               /\ timestamp' = now
               /\ requestCount' = 0
               /\ successCount' = 0
               /\ failureCount' = 0
               /\ Continue(1)
  /\ UNCHANGED <<storeVars, games, rateLimited, procVars>>

\* getActiveGames rejects: collectPrices logs and rethrows.
GetActiveGamesFails ==
  /\ pc = "getActiveGames"
  /\ pc' = "raised"
  /\ query' = "none"
  /\ UNCHANGED <<storeVars, games, now, activeGames, cursor, priceRecords,
                 timestamp, requestCount, successCount, failureCount,
                 attempts, rateLimited, procVars>>

\* A mutation of the record pushed: it is stamped with the time at which the
\* answer arrives.
Observation_StampedOnArrival(req, price) ==
  [conditionId |-> req.conditionId,
   tokenId |-> req.tokenID,
   outcome |-> req.title,
   price |-> price,
   timestamp |-> now,
   source |-> "rest"]

\* The record priceRecords.push adds for a request answered with a price:
\* its timestamp is the run's one Date object.
Observation(req, price) ==
  [conditionId |-> req.conditionId,
   tokenId |-> req.tokenID,
   outcome |-> req.title,
   price |-> price,
   timestamp |-> timestamp,
   source |-> "rest"]

\* fetch answers with r (or rejects): fetchTokenPrice either starts its
\* 30 s wait or returns, and on a return collectPrices counts the request
\* and starts the delay between requests.
Receive(r) ==
  /\ pc = "fetch"
  /\ LET req == GameRequests(activeGames)[cursor]
         step == fetchTokenPriceOn(r)
     IN /\ attempts' = [attempts EXCEPT ![Len(attempts)].response = r]
        /\ IF step.retry
           THEN /\ rateLimited < MaxRateLimits
                /\ rateLimited' = rateLimited + 1
                /\ pc' = "cooldown"
                /\ UNCHANGED <<priceRecords, requestCount, successCount, failureCount>>
           ELSE /\ requestCount' = requestCount + 1
                /\ IF step.value # NoPrice
                   THEN /\ priceRecords' = Append(priceRecords,
                                                  Observation(req, step.value))
                        /\ successCount' = successCount + 1
                        /\ UNCHANGED failureCount
                   ELSE /\ failureCount' = failureCount + 1
                        /\ UNCHANGED <<priceRecords, successCount>>
                /\ pc' = "delay"
                /\ UNCHANGED rateLimited
  /\ UNCHANGED <<storeVars, games, now, activeGames, cursor, timestamp, query,
                 procVars>>

\* sleep(30000) is over: the recursive call sends the same request again.
CooldownElapsed ==
  /\ pc = "cooldown"
  /\ now' = now + RATE_LIMIT_WAIT
  /\ attempts' = Append(attempts, Attempt(attempts[Len(attempts)].tokenId, now'))
  /\ pc' = "fetch"
  /\ UNCHANGED <<storeVars, games, activeGames, cursor, priceRecords, timestamp,
                 requestCount, successCount, failureCount, rateLimited, query,
                 procVars>>

\* sleep(DELAY_BETWEEN_REQUESTS) is over: the loops go on to the next
\* request, before which every tenth request waits the delay once more.
DelayElapsed ==
  /\ pc = "delay"
  /\ LET more == cursor + 1 <= Len(GameRequests(activeGames))
         pause == more /\ requestCount > 0 /\ requestCount % REQUESTS_PER_PAUSE = 0
     IN now' = now + DELAY_BETWEEN_REQUESTS
                   + (IF pause THEN DELAY_BETWEEN_REQUESTS ELSE 0)
  /\ UNCHANGED <<activeGames, priceRecords>>
  /\ Continue(cursor + 1)
  /\ UNCHANGED <<storeVars, games, timestamp, requestCount, successCount,
                 failureCount, rateLimited, procVars>>

\* The batch write at the end of the run succeeds.
BatchInsertDone ==
  /\ pc = "batchInsertPrices"
  /\ query = "sent"
  /\ batchInsertPricesCall(priceRecords, "collectPrices")
  /\ pc' = "returned"
  /\ query' = "none"
  /\ UNCHANGED <<redelivery, games, now, activeGames, cursor, priceRecords,
                 timestamp, requestCount, successCount, failureCount,
                 attempts, rateLimited, procVars>>

\* The batch write rejects: collectPrices logs and rethrows.
BatchInsertFails ==
  /\ pc = "batchInsertPrices"
  /\ pc' = "raised"
  /\ query' = "none"
  /\ UNCHANGED <<storeVars, games, now, activeGames, cursor, priceRecords,
                 timestamp, requestCount, successCount, failureCount,
                 attempts, rateLimited, procVars>>

-----------------------------------------------------------------------------
(* Catalogs and specifications of a run *)

Outcome(title, tokenID) == [title |-> title, tokenID |-> tokenID]
Market(conditionId, sportsMarketType, outcomes) ==
  [conditionId |-> conditionId, sportsMarketType |-> sportsMarketType,
   outcomes |-> outcomes]
Game(id, start_date, end_date, closed, markets) ==
  [id |-> id, start_date |-> start_date, end_date |-> end_date,
   closed |-> closed, markets |-> markets]

Yes1 == Outcome("Yes", "t1")
Yes2 == Outcome("Yes", "t2")

\* The games tables a run is checked on: no row; a closed game; a game whose
\* markets column is NULL; a game over but not closed, with two outcomes; a
\* game with a market of another type and an outcome without a token, next
\* to a game yet to start with a market without outcomes; two games of the
\* same start that share a market; a game starting in 48 hours; a game none
\* of whose markets has an outcome to request; two games with three outcomes
\* between them.
RunCatalogs ==
  { {},
    {Game(1, 0 - 1, <<>>, TRUE, <<Market("c1", "moneyline", <<Yes1>>)>>)},
    {Game(1, 0 - 1, <<1>>, FALSE, <<>>)},
    {Game(1, 0 - 2, <<0 - 1>>, FALSE,
          <<Market("c1", "moneyline", <<Yes1, Outcome("No", "t2")>>)>>)},
    {Game(1, 0 - 1, <<1>>, FALSE,
          <<Market("c2", "spreads", <<Yes2>>),
            Market("c1", "moneyline", <<Outcome("No", NULL), Yes1>>)>>),
     Game(2, 1, <<>>, FALSE,
          <<Market("c2", "moneyline", <<>>), Market("c2", "moneyline", <<Yes2>>)>>)},
    {Game(1, 0 - 1, <<1>>, FALSE, <<Market("c1", "moneyline", <<Yes1>>)>>),
     Game(2, 0 - 1, <<1>>, FALSE, <<Market("c1", "moneyline", <<Yes1>>)>>)},
    {Game(1, HOURS_48, <<>>, FALSE, <<Market("c1", "moneyline", <<Yes1>>)>>)},
    {Game(1, 0 - 1, <<1>>, FALSE,
          <<Market("c2", "spreads", <<Yes2>>),
            Market("c1", "moneyline", <<Outcome("No", NULL)>>),
            Market("c1", "moneyline", <<>>)>>)},
    {Game(1, 0 - 2, <<1>>, FALSE,
          <<Market("c1", "moneyline", <<Yes1, Outcome("No", "t2")>>)>>),
     Game(2, 0 - 1, <<1>>, FALSE, <<Market("c2", "moneyline", <<Yes2>>)>>)} }

\* A run of collectPrices about to start.
RunStart(table, t) ==
  /\ games = table
  /\ now = t
  /\ pc = "getActiveGames"
  /\ activeGames = <<>>
  /\ cursor = 0
  /\ priceRecords = <<>>
  /\ timestamp = 0
  /\ requestCount = 0
  /\ successCount = 0
  /\ failureCount = 0
  /\ attempts = <<>>
  /\ rateLimited = 0
  /\ query = "sent"
  /\ NoProcess

RunInit == EmptyStore /\ \E table \in RunCatalogs : RunStart(table, 0)

RunNext ==
  \/ StartCollect
  \/ GetActiveGamesFails
  \/ \E r \in Responses : Receive(r)
  \/ CooldownElapsed
  \/ DelayElapsed
  \/ BatchInsertDone
  \/ BatchInsertFails

SpecRun == RunInit /\ [][RunNext]_vars

\* The times at which a run is started.
StartTimes == {0, 1}

\* A run started at any of these times.
StampInit == EmptyStore /\ \E table \in RunCatalogs, t \in StartTimes : RunStart(table, t)

SpecStamp == StampInit /\ [][RunNext]_vars

\* Prices the quote service may answer with: one inside 0..1, and outside it
\* 1.5, -0.5, 1.000000004 and 1e10.
RangePrices == {1, ONE + ONE \div 2, 0 - ONE \div 2, JustAboveOne, TenBillion}

RangeResponses ==
  {Http(200, Body(Decimal(p), Undefined)) : p \in RangePrices}
  \cup {Http(200, Body(Undefined, Decimal(p))) : p \in RangePrices}

\* One game under way, with two outcomes to request.
RangeCatalog ==
  {Game(1, 0 - 2, <<>>, FALSE,
        <<Market("c1", "moneyline", <<Yes1, Outcome("No", "t2")>>)>>)}

RangeInit == EmptyStore /\ RunStart(RangeCatalog, 0)

RangeNext ==
  \/ StartCollect
  \/ \E r \in RangeResponses : Receive(r)
  \/ DelayElapsed
  \/ BatchInsertDone
  \/ BatchInsertFails

SpecRange == RangeInit /\ [][RangeNext]_vars

\* The answers of the quote service a run is checked with for termination.
RetryResponses ==
  {NetworkError, Http(429, NoBody), Http(500, NoBody),
   Http(200, Body(Decimal(0), Undefined))}

\* An answer that ends the call of fetchTokenPrice: anything but 429.
FinalAnswer ==
  \E r \in RetryResponses : ~fetchTokenPriceOn(r).retry /\ Receive(r)

\* A mutation of the retry: past MaxRateLimits answers of 429 the call gives
\* up and returns null.
ReceiveRateLimitedAgain_GivesUp ==
  /\ pc = "fetch"
  /\ rateLimited >= MaxRateLimits
  /\ attempts' = [attempts EXCEPT ![Len(attempts)].response = Http(429, NoBody)]
  /\ requestCount' = requestCount + 1
  /\ failureCount' = failureCount + 1
  /\ pc' = "delay"
  /\ UNCHANGED <<storeVars, games, now, activeGames, cursor, priceRecords,
                 timestamp, successCount, rateLimited, query, procVars>>

\* 429 once more when MaxRateLimits answers of 429 have been counted: the
\* call waits and retries as before; rateLimited stays at MaxRateLimits + 1,
\* which stands for every greater number.
ReceiveRateLimitedAgain ==
  /\ pc = "fetch"
  /\ rateLimited >= MaxRateLimits
  /\ attempts' = [attempts EXCEPT ![Len(attempts)].response = Http(429, NoBody)]
  /\ rateLimited' = MaxRateLimits + 1
  /\ pc' = "cooldown"
  /\ UNCHANGED <<storeVars, games, now, activeGames, cursor, priceRecords,
                 timestamp, requestCount, successCount, failureCount, query,
                 procVars>>

\* An answer of 429.
RateLimitedAnswer ==
  \/ \E r \in RetryResponses : fetchTokenPriceOn(r).retry /\ Receive(r)
  \/ ReceiveRateLimitedAgain

\* sleep(30000) is over after such a 429: the same request is sent again.
\* The attempts and the clock, which record the run so far, keep no more
\* than MaxRateLimits retries: the last attempt stands for the new one.
CooldownElapsedAgain ==
  /\ pc = "cooldown"
  /\ rateLimited > MaxRateLimits
  /\ attempts' = [attempts EXCEPT ![Len(attempts)].response = Pending]
  /\ pc' = "fetch"
  /\ UNCHANGED <<storeVars, games, now, activeGames, cursor, priceRecords,
                 timestamp, requestCount, successCount, failureCount,
                 rateLimited, query, procVars>>

RetryInit == EmptyStore /\ RunStart(RangeCatalog, 0)

\* A run whose requests may be answered 429 any number of times.
RetryNext ==
  \/ StartCollect
  \/ GetActiveGamesFails
  \/ FinalAnswer
  \/ RateLimitedAnswer
  \/ rateLimited <= MaxRateLimits /\ CooldownElapsed
  \/ CooldownElapsedAgain
  \/ DelayElapsed
  \/ BatchInsertDone
  \/ BatchInsertFails

\* Every await of the run settles: the store and the quote service answer,
\* with whatever answer, and the timers fire.
SpecRetry == RetryInit /\ [][RetryNext]_vars /\ WF_vars(RetryNext)

\* Every pair of values of the fields price and mid of a success response.
FieldResponses == {Http(200, Body(f, g)) : f, g \in FieldValues}

\* One game under way, with one outcome to request.
QuoteCatalog ==
  {Game(1, 0 - 1, <<>>, FALSE, <<Market("c1", "moneyline", <<Yes1>>)>>)}

QuoteInit == EmptyStore /\ RunStart(QuoteCatalog, 0)

QuoteNext ==
  \/ StartCollect
  \/ \E r \in FieldResponses : Receive(r)
  \/ DelayElapsed
  \/ BatchInsertDone
  \/ BatchInsertFails

SpecQuote == QuoteInit /\ [][QuoteNext]_vars

MaxLiveGames == 2    \* rows of the games table when the liveness query is checked

HOUR == 60 * 60 * 1000

\* Starts and ends of a row, relative to the time of the query.
StartOffsets == {0 - HOURS_48, 0 - 1, 0, 1, HOURS_48 - 1, HOURS_48, HOURS_48 + HOUR}
EndOffsets == {0 - 1, 0, 1}

LiveShapes(t) ==
  [start_date : {t + d : d \in StartOffsets},
   end_date : {<<>>} \cup {<<t + d>> : d \in EndOffsets},
   closed : BOOLEAN]

\* A games table of the given shapes, one row per shape, none with markets.
LiveTable(f) ==
  {Game(i, f[i].start_date, f[i].end_date, f[i].closed, <<>>) : i \in DOMAIN f}

\* The liveness query is checked on every table of up to MaxLiveGames rows.
LiveInit ==
  /\ EmptyStore
  /\ \E n \in 0..MaxLiveGames : \E f \in [1..n -> LiveShapes(HOUR)] :
       RunStart(LiveTable(f), HOUR)

LiveNext == StartCollect

SpecLive == LiveInit /\ [][LiveNext]_vars

\* Starts on both sides of the 48 hour horizon, relative to the time of the query.
HorizonOffsets == {40 * HOUR, HOURS_48 - 1, HOURS_48 + 1, 72 * HOUR}

HorizonShapes(t) == [start_date : {t + d : d \in HorizonOffsets}, closed : BOOLEAN]

\* Two games yet to start, each with one moneyline market of one outcome:
\* game 1 with token t1 and game 2 with token t2.
HorizonTable(a, b) ==
  {Game(1, a.start_date, <<>>, a.closed, <<Market("c1", "moneyline", <<Yes1>>)>>),
   Game(2, b.start_date, <<>>, b.closed, <<Market("c2", "moneyline", <<Yes2>>)>>)}

\* A run over every such table.
HorizonInit ==
  /\ EmptyStore
  /\ \E a, b \in HorizonShapes(HOUR) : RunStart(HorizonTable(a, b), HOUR)

SpecHorizon == HorizonInit /\ [][RunNext]_vars

-----------------------------------------------------------------------------
(* The frequency decision and the scheduler *)

MINUTES_10 == 10 * 60 * 1000          \* INTERVAL '10 minutes'
HIGH_INTERVAL == 2 * 60 * 1000        \* 2 minutes
LOW_INTERVAL == 10 * 60 * 1000        \* 10 minutes
RETRY_WAIT == 60000                   \* await sleep(60000)

MaxCycles == 2    \* cycles the scheduler starts

\* A mutation of the WHERE clause: closed games are counted too.
Upcoming_CountsClosed(g, t) == g.start_date < t + HOURS_48

\* WHERE closed = false AND start_date < NOW() + INTERVAL '48 hours'
Upcoming(g, t) == g.closed = FALSE /\ g.start_date < t + HOURS_48

MinOf(S) == CHOOSE x \in S : \A y \in S : x <= y

\* shouldUseHighFrequency at time t.  The reason is its fixed text, without
\* the count or date put into it; nextGameStart is <<>> when undefined.
shouldUseHighFrequency(table, t) ==
  LET rows == {g \in table : Upcoming(g, t)}
      activeCount == Cardinality({g \in rows : g.start_date <= t})
      upcomingCount ==
        Cardinality({g \in rows : g.start_date > t /\ g.start_date <= t + MINUTES_10})
      later == {g.start_date : g \in {r \in rows : r.start_date > t}}
      next_start_date == IF later = {} THEN <<>> ELSE <<MinOf(later)>>
  IN IF activeCount > 0
     THEN [highFrequency |-> TRUE, reason |-> "active game(s) in progress",
           nextGameStart |-> next_start_date]
     ELSE IF upcomingCount > 0
     THEN [highFrequency |-> TRUE, reason |-> "game(s) starting within 10 minutes",
           nextGameStart |-> next_start_date]
     ELSE [highFrequency |-> FALSE,
           reason |-> IF next_start_date # <<>> THEN "Next game starts at"
                      ELSE "No upcoming games",
           nextGameStart |-> next_start_date]

\* A call of collectPrices: its locals are new, and its games query is sent.
CallCollectPrices ==
  /\ pc' = "getActiveGames"
  /\ query' = Issued
  /\ activeGames' = <<>>
  /\ cursor' = 0
  /\ priceRecords' = <<>>
  /\ timestamp' = 0
  /\ requestCount' = 0
  /\ successCount' = 0
  /\ failureCount' = 0
  /\ attempts' = <<>>

\* The top of the while loop, at time t: the frequency query is sent.
BeginCycle(t) ==
  /\ runCount' = runCount + 1
  /\ cycleStart' = t
  /\ spc' = "shouldUseHighFrequency"
  /\ query' = Issued

\* A mutation of the call: the scheduler does not await collectPrices and
\* goes on to its sleep while the run is under way.
FrequencyChecked_NotAwaited ==
  /\ spc = "shouldUseHighFrequency"
  /\ query = "sent"
  /\ frequencyCheck' = shouldUseHighFrequency(games, now)
  /\ spc' = "sleep"
  /\ CallCollectPrices
  /\ UNCHANGED <<storeVars, games, now, rateLimited, cycleStart, runCount, pool,
                 closing, closeCalls, exitCode, exitRoute>>

\* shouldUseHighFrequency has answered: the scheduler calls collectPrices.
FrequencyChecked ==
  /\ spc = "shouldUseHighFrequency"
  /\ query = "sent"
  /\ frequencyCheck' = shouldUseHighFrequency(games, now)
  /\ spc' = "collectPrices"
  /\ CallCollectPrices
  /\ UNCHANGED <<storeVars, games, now, rateLimited, cycleStart, runCount, pool,
                 closing, closeCalls, exitCode, exitRoute>>

\* shouldUseHighFrequency rejects: the catch block starts its one minute wait.
FrequencyCheckFails ==
  /\ spc = "shouldUseHighFrequency"
  /\ spc' = "retry"
  /\ query' = "none"
  /\ UNCHANGED <<storeVars, games, now, pc, activeGames, cursor, priceRecords,
                 timestamp, requestCount, successCount, failureCount, attempts,
                 rateLimited, frequencyCheck, cycleStart, runCount, pool,
                 closing, closeCalls, exitCode, exitRoute>>

\* scheduler() has been called at time t: its first cycle has sent the
\* frequency query; collectPrices has not been called yet.
SchedulerStart(table, t) ==
  /\ games = table
  /\ now = t
  /\ pc = "idle"
  /\ activeGames = <<>>
  /\ cursor = 0
  /\ priceRecords = <<>>
  /\ timestamp = 0
  /\ requestCount = 0
  /\ successCount = 0
  /\ failureCount = 0
  /\ attempts = <<>>
  /\ rateLimited = 0
  /\ query = "sent"
  /\ spc = "shouldUseHighFrequency"
  /\ frequencyCheck = NoCheck
  /\ cycleStart = t
  /\ runCount = 1
  /\ pool = "open"
  /\ closing = <<>>
  /\ closeCalls = 0
  /\ exitCode = NoExit
  /\ exitRoute = "none"

\* Time that passes between the start of a cycle's work and the scheduler's
\* reading of the clock, beyond the waits of the run itself: nothing, or one
\* whole idle interval (a slow store or slow requests).
Elapsed == {0, LOW_INTERVAL}

\* A mutation of the sleep: the whole interval, whatever the cycle took.
sleepTime_WholeInterval(check, start, t) ==
  IF check.highFrequency THEN HIGH_INTERVAL ELSE LOW_INTERVAL

\* const sleepTime = Math.max(0, intervalMs - cycleDuration), with the clock at t
sleepTime(check, start, t) ==
  LET intervalMs == IF check.highFrequency THEN HIGH_INTERVAL ELSE LOW_INTERVAL
      cycleDuration == t - start
  IN IF intervalMs - cycleDuration > 0 THEN intervalMs - cycleDuration ELSE 0

\* collectPrices has returned: the scheduler reads the clock and sleeps the
\* rest of the interval, or goes round at once when the cycle took the whole
\* interval.
CollectReturned ==
  /\ spc = "collectPrices"
  /\ pc = "returned"
  /\ pc' = "idle"
  /\ \E e \in Elapsed : now' = now + e
  /\ IF sleepTime(frequencyCheck, cycleStart, now') > 0
     THEN /\ spc' = "sleep"
          /\ UNCHANGED <<query, runCount, cycleStart>>
     ELSE /\ runCount < MaxCycles
          /\ BeginCycle(now')
  /\ UNCHANGED <<storeVars, games, activeGames, cursor, priceRecords,
                 timestamp, requestCount, successCount, failureCount, attempts,
                 rateLimited, frequencyCheck, pool, closing, closeCalls,
                 exitCode, exitRoute>>

\* A modelling variant: the failure of the run escapes the loop, which stops.
CollectRaised_Escapes ==
  /\ spc = "collectPrices"
  /\ pc = "raised"
  /\ pc' = "idle"
  /\ spc' = "stopped"
  /\ UNCHANGED <<storeVars, games, now, activeGames, cursor, priceRecords,
                 timestamp, requestCount, successCount, failureCount, attempts,
                 rateLimited, query, frequencyCheck, cycleStart, runCount, pool,
                 closing, closeCalls, exitCode, exitRoute>>

\* collectPrices has raised: the catch block starts its one minute wait.
CollectRaised ==
  /\ spc = "collectPrices"
  /\ pc = "raised"
  /\ pc' = "idle"
  /\ spc' = "retry"
  /\ UNCHANGED <<storeVars, games, now, activeGames, cursor, priceRecords,
                 timestamp, requestCount, successCount, failureCount, attempts,
                 rateLimited, query, frequencyCheck, cycleStart, runCount, pool,
                 closing, closeCalls, exitCode, exitRoute>>

\* sleep(sleepTime) is over: the next cycle starts.
SleepElapsed ==
  /\ spc = "sleep"
  /\ runCount < MaxCycles
  /\ now' = now + sleepTime(frequencyCheck, cycleStart, now)
  /\ BeginCycle(now')
  /\ UNCHANGED <<storeVars, games, pc, activeGames, cursor, priceRecords,
                 timestamp, requestCount, successCount, failureCount, attempts,
                 rateLimited, frequencyCheck, pool, closing, closeCalls,
                 exitCode, exitRoute>>

\* sleep(60000) is over: the next cycle starts.
RetryElapsed ==
  /\ spc = "retry"
  /\ runCount < MaxCycles
  /\ now' = now + RETRY_WAIT
  /\ BeginCycle(now')
  /\ UNCHANGED <<storeVars, games, pc, activeGames, cursor, priceRecords,
                 timestamp, requestCount, successCount, failureCount, attempts,
                 rateLimited, frequencyCheck, pool, closing, closeCalls,
                 exitCode, exitRoute>>

MaxFrequencyGames == 2    \* rows of the games table when the frequency decision is checked

\* Starts around now, the 10 minute mark and the 48 hour mark.
FrequencyOffsets ==
  {0 - 1, 0, 1, MINUTES_10 - 1, MINUTES_10, MINUTES_10 + 1, HOURS_48 - 1, HOURS_48}

FrequencyShapes(t) ==
  [start_date : {t + d : d \in FrequencyOffsets},
   end_date : {<<>>, <<t - 1>>},
   closed : BOOLEAN]

\* The frequency decision is checked on every table of up to
\* MaxFrequencyGames rows.
FrequencyInit ==
  /\ EmptyStore
  /\ \E n \in 0..MaxFrequencyGames : \E f \in [1..n -> FrequencyShapes(HOUR)] :
       SchedulerStart(LiveTable(f), HOUR)

FrequencyNext == FrequencyChecked

SpecFrequency == FrequencyInit /\ [][FrequencyNext]_vars

(***************************************************************************)
(* The continuous-mode process: the scheduler loop, the run it awaits, the *)
(* signal and error handlers, close() and process.exit.                    *)
(***************************************************************************)
MaxFatalEvents == 2    \* signals and fatal errors delivered to one process

Signals == {"SIGTERM", "SIGINT"}
FatalErrors == {"uncaughtException", "unhandledRejection"}

Running == exitCode = NoExit

\* close() is called from the handler of `route`: pool.end() starts the
\* shutdown of the pool on its first call and rejects on every later one.
CallClose(route, pending) ==
  /\ closeCalls' = closeCalls + 1
  /\ closing' = Append(pending, [route |-> route, first |-> pool = "open"])

\* What a step of the process leaves alone besides the pool and the exit.
runLocals == <<games, now, activeGames, cursor, priceRecords, timestamp,
               requestCount, successCount, failureCount, attempts, rateLimited,
               query>>

\* process.exit(code), reached from the handler of `route`: the scheduler
\* loop and any run it awaits stop where they are.
Exit(code, route) ==
  /\ exitCode' = code
  /\ exitRoute' = route
  /\ pc' = "exited"
  /\ spc' = "exited"

\* A modelling variant: the signal ends the process at once, without close().
Signal_ExitsAtOnce(sig) ==
  /\ Running
  /\ closeCalls < MaxFatalEvents
  /\ Exit(0, sig)
  /\ UNCHANGED <<storeVars, runLocals, frequencyCheck, cycleStart, runCount,
                 pool, closing, closeCalls>>

\* SIGTERM or SIGINT is delivered: shutdown(signal) awaits close().
\* An exit code of 0 follows once that close() resolves.
Signal(sig) ==
  /\ Running
  /\ closeCalls < MaxFatalEvents
  /\ CallClose(sig, closing)
  /\ pool' = IF pool = "open" THEN "ending" ELSE pool
  /\ UNCHANGED <<storeVars, runVars, spc, frequencyCheck, cycleStart, runCount,
                 exitCode, exitRoute>>

\* An 'uncaughtException' or 'unhandledRejection' event from outside the
\* scheduler loop: its handler calls close().finally(() => process.exit(1)).
FatalError(route) ==
  /\ Running
  /\ closeCalls < MaxFatalEvents
  /\ CallClose(route, closing)
  /\ pool' = IF pool = "open" THEN "ending" ELSE pool
  /\ UNCHANGED <<storeVars, runVars, spc, frequencyCheck, cycleStart, runCount,
                 exitCode, exitRoute>>

\* scheduler() is entered: the first cycle starts.
SchedulerEntered ==
  /\ spc = "scheduler"
  /\ runCount < MaxCycles
  /\ BeginCycle(now)
  /\ UNCHANGED <<storeVars, games, now, pc, activeGames, cursor, priceRecords,
                 timestamp, requestCount, successCount, failureCount, attempts,
                 rateLimited, frequencyCheck, pool, closing, closeCalls,
                 exitCode, exitRoute>>

\* scheduler() rejects before its first cycle: the .catch of the start
\* calls close().finally(() => process.exit(1)).
SchedulerFails ==
  /\ spc = "scheduler"
  /\ spc' = "failed"
  /\ CallClose("scheduler", closing)
  /\ pool' = IF pool = "open" THEN "ending" ELSE pool
  /\ UNCHANGED <<storeVars, runVars, frequencyCheck, cycleStart, runCount,
                 exitCode, exitRoute>>

Remove(seq, i) == SubSeq(seq, 1, i - 1) \o SubSeq(seq, i + 1, Len(seq))

\* The i-th pending close() settles.  The first call of pool.end() resolves
\* once no query holds a client; a later call has been rejected.  shutdown
\* then exits with 0 when close() resolved, and its rejection is an
\* unhandled rejection, whose handler calls close() again; the other
\* handlers exit with 1 however close() settled.
CloseSettles(i) ==
  /\ Running
  /\ i \in 1..Len(closing)
  /\ LET c == closing[i]
         pending == Remove(closing, i)
     IN /\ c.first => query # "sent"
        /\ pool' = IF c.first THEN "ended" ELSE pool
        /\ IF c.route \in Signals /\ ~c.first
           THEN /\ CallClose("unhandledRejection", pending)
                /\ UNCHANGED <<pc, spc, exitCode, exitRoute>>
           ELSE /\ Exit(IF c.route \in Signals THEN 0 ELSE 1, c.route)
                /\ closing' = pending
                /\ UNCHANGED closeCalls
  /\ UNCHANGED <<storeVars, runLocals, frequencyCheck, cycleStart, runCount>>

\* The answers of the quote service the process is checked with.
CycleResponses ==
  {NetworkError, Http(429, NoBody), Http(200, Body(Decimal(0), Undefined))}

\* The games tables the process is checked with: none, one game under way
\* with one token, and one game far ahead.
CycleCatalogs ==
  { {},
    {Game(1, 0 - 1, <<>>, FALSE, <<Market("c1", "moneyline", <<Yes1>>)>>)},
    {Game(1, HOUR, <<>>, FALSE, <<Market("c1", "moneyline", <<Yes1>>)>>)} }

ProcessStart(table, t) ==
  /\ games = table
  /\ now = t
  /\ pc = "idle"
  /\ activeGames = <<>>
  /\ cursor = 0
  /\ priceRecords = <<>>
  /\ timestamp = 0
  /\ requestCount = 0
  /\ successCount = 0
  /\ failureCount = 0
  /\ attempts = <<>>
  /\ rateLimited = 0
  /\ query = "none"
  /\ spc = "scheduler"
  /\ frequencyCheck = NoCheck
  /\ cycleStart = 0
  /\ runCount = 0
  /\ pool = "open"
  /\ closing = <<>>
  /\ closeCalls = 0
  /\ exitCode = NoExit
  /\ exitRoute = "none"

SchedulerInit == EmptyStore /\ \E table \in CycleCatalogs : ProcessStart(table, 0)

\* One step of the scheduler loop or of the run it awaits.
CycleStep ==
  \/ SchedulerEntered
  \/ FrequencyChecked
  \/ FrequencyCheckFails
  \/ StartCollect
  \/ GetActiveGamesFails
  \/ \E r \in CycleResponses : Receive(r)
  \/ CooldownElapsed
  \/ DelayElapsed
  \/ BatchInsertDone
  \/ BatchInsertFails
  \/ CollectReturned
  \/ CollectRaised
  \/ SleepElapsed
  \/ RetryElapsed

\* One event of the process around the loop.
ProcessEvent ==
  \/ \E sig \in Signals : Signal(sig)
  \/ \E route \in FatalErrors : FatalError(route)
  \/ SchedulerFails
  \/ \E i \in 1..(2 * MaxFatalEvents) : CloseSettles(i)

SchedulerNext == CycleStep \/ ProcessEvent

SpecScheduler == SchedulerInit /\ [][SchedulerNext]_vars

\* The scheduler with no signal and no fatal error delivered.
SpecCycle == SchedulerInit /\ [][CycleStep]_vars

\* The event loop runs every callback that is ready: a step of the loop or of
\* the run that stays possible is taken.
SpecCycleFair == SpecCycle /\ WF_vars(CycleStep)

\* The games table of a process whose runs send two requests: one game under
\* way with two tokens.
SequentialCatalogs ==
  { {Game(1, 0 - 1, <<>>, FALSE,
          <<Market("c1", "moneyline", <<Yes1, Outcome("No", "t2")>>)>>)} }

SequentialInit ==
  EmptyStore /\ \E table \in SequentialCatalogs : ProcessStart(table, 0)

\* The scheduler loop over runs of two requests, no signal or fatal error
\* delivered.
SpecSequential == SequentialInit /\ [][CycleStep]_vars

(***************************************************************************)
(* The one-shot process: main() awaits one run of collectPrices.           *)
(***************************************************************************)

\* main() has been called at time t: collectPrices has sent its games query.
MainStart(table, t) ==
  /\ games = table
  /\ now = t
  /\ pc = "getActiveGames"
  /\ activeGames = <<>>
  /\ cursor = 0
  /\ priceRecords = <<>>
  /\ timestamp = 0
  /\ requestCount = 0
  /\ successCount = 0
  /\ failureCount = 0
  /\ attempts = <<>>
  /\ rateLimited = 0
  /\ query = "sent"
  /\ spc = "main"
  /\ frequencyCheck = NoCheck
  /\ cycleStart = 0
  /\ runCount = 0
  /\ pool = "open"
  /\ closing = <<>>
  /\ closeCalls = 0
  /\ exitCode = NoExit
  /\ exitRoute = "none"

\* collectPrices has raised: the catch block logs and calls process.exit(1),
\* which ends the process there; the finally block is not reached.
MainCaught ==
  /\ spc = "main"
  /\ pc = "raised"
  /\ Exit(1, "catch")
  /\ UNCHANGED <<storeVars, runLocals, frequencyCheck, cycleStart, runCount,
                 pool, closing, closeCalls>>

\* collectPrices has returned: the finally block awaits close().
MainFinally ==
  /\ spc = "main"
  /\ pc = "returned"
  /\ spc' = "close"
  /\ CallClose("main", closing)
  /\ pool' = IF pool = "open" THEN "ending" ELSE pool
  /\ UNCHANGED <<storeVars, runVars, frequencyCheck, cycleStart, runCount,
                 exitCode, exitRoute>>

\* close() resolves: main returns and the process, with nothing left to do,
\* ends with code 0.
MainClosed ==
  /\ spc = "close"
  /\ Len(closing) = 1
  /\ closing[1].first
  /\ query # "sent"
  /\ pool' = "ended"
  /\ closing' = <<>>
  /\ Exit(0, closing[1].route)
  /\ UNCHANGED <<storeVars, runLocals, frequencyCheck, cycleStart, runCount,
                 closeCalls>>

MainInit == EmptyStore /\ \E table \in RunCatalogs : MainStart(table, 0)

MainNext ==
  \/ RunNext
  \/ MainCaught
  \/ MainFinally
  \/ MainClosed

SpecMain == MainInit /\ [][MainNext]_vars

-----------------------------------------------------------------------------
(* Properties of the price store *)

StoredKeys == {<<market_prices[i].condition_id, market_prices[i].token_id>> :
                 i \in 1..Len(market_prices)}

\* The stored observations of one key, in insertion order.
RowsOfKey(k) ==
  SelectSeq(market_prices, LAMBDA r : r.condition_id = k[1] /\ r.token_id = k[2])

PricesOfKey(k) == {RowsOfKey(k)[i].price : i \in 1..Len(RowsOfKey(k))}

MinPrice(S) == CHOOSE x \in S : \A y \in S : ~PgLess(y, x)

MaxPrice_(S) == CHOOSE x \in S : \A y \in S : ~PgLess(x, y)

\* The extremes relation obtained from an empty one by applying the trigger to
\* rows, in order.
RECURSIVE ReplayFrom(_, _)
ReplayFrom(mpe, rows) ==
  IF rows = <<>> THEN mpe
  ELSE ReplayFrom(update_price_extremes(mpe, Head(rows)), Tail(rows))

Replay(rows) == ReplayFrom(<<>>, rows)

\* rows in ascending timestamp order (the timestamps of one key are distinct).
RECURSIVE SortByTimestamp(_)
SortByTimestamp(rows) ==
  IF rows = <<>> THEN <<>>
  ELSE LET i == CHOOSE i \in 1..Len(rows) :
                  \A j \in 1..Len(rows) : rows[i].timestamp <= rows[j].timestamp
           rest == [j \in 1..(Len(rows) - 1) |-> IF j < i THEN rows[j] ELSE rows[j + 1]]
       IN <<rows[i]>> \o SortByTimestamp(rest)

InsertedInTimestampOrder(k) ==
  \A i, j \in 1..Len(RowsOfKey(k)) :
    i < j => RowsOfKey(k)[i].timestamp < RowsOfKey(k)[j].timestamp

\* C1: writing a batch a second time, right after writing it, leaves the
\* observation relation as the first write left it: the second write inserts
\* no row.
C1_WriteBatchIdempotent ==
  [][lastWrite'.op = "redelivery" => market_prices' = market_prices]_vars

\* C1 witness: a batch of two rows was written twice: the first write stored a
\* row, the second skipped every row.
C1_Witness ==
  /\ lastWrite.op = "redelivery"
  /\ lastWrite.skipped = 2
  /\ Len(market_prices) >= 2

\* C2: no two rows of the observation relation share (condition_id, token_id,
\* timestamp), whatever insertPrice and batchInsertPrices calls were made,
\* batches that repeat a key and re-delivered batches included.
C2_UniqueObservations ==
  \A i, j \in 1..Len(market_prices) :
    (/\ market_prices[i].condition_id = market_prices[j].condition_id
     /\ market_prices[i].token_id = market_prices[j].token_id
     /\ market_prices[i].timestamp = market_prices[j].timestamp) => i = j

\* C2 witness: a re-delivered batch that repeats a key: both deliveries are
\* done, and the first skipped a row although the relation was empty before it.
C2_Witness ==
  /\ lastWrite.op = "redelivery"
  /\ lastWrite.skipped = 2
  /\ Len(market_prices) = 1

\* C3: for every key with stored observations, the extremes record's lowest
\* price is the minimum and its highest price the maximum of the prices of the
\* observations stored for that key, whatever the order of insertion.
C3_LowestHighestAreMinMax ==
  \A k \in StoredKeys :
    /\ k \in DOMAIN market_price_extremes
    /\ market_price_extremes[k].lowest_price = MinPrice(PricesOfKey(k))
    /\ market_price_extremes[k].highest_price = MaxPrice_(PricesOfKey(k))

\* C3 witness: a key whose observations were inserted against their timestamps,
\* the later one carrying the lower price.
C3_Witness ==
  \E k \in StoredKeys :
    /\ Len(RowsOfKey(k)) = 2
    /\ RowsOfKey(k)[1].timestamp > RowsOfKey(k)[2].timestamp
    /\ RowsOfKey(k)[1].price > RowsOfKey(k)[2].price

\* C4: every extremes record has lowest_price <= current_price <= highest_price.
C4_LowestCurrentHighest ==
  \A k \in DOMAIN market_price_extremes :
    /\ ~PgLess(market_price_extremes[k].current_price,
               market_price_extremes[k].lowest_price)
    /\ ~PgLess(market_price_extremes[k].highest_price,
               market_price_extremes[k].current_price)

\* C4 witness: a record updated by a second insert whose price is above the
\* first: lowest < current = highest.
C4_Witness ==
  \E k \in DOMAIN market_price_extremes :
    /\ Len(RowsOfKey(k)) = 2
    /\ market_price_extremes[k].lowest_price < market_price_extremes[k].current_price
    /\ market_price_extremes[k].current_price = market_price_extremes[k].highest_price

\* C5: an extremes record exists for a key exactly when an observation with
\* that key is stored.
C5_ExtremesIffObserved ==
  DOMAIN market_price_extremes = StoredKeys

\* C5 witness: one key has observations and a record, the other has neither.
C5_Witness ==
  /\ Len(market_prices) = 2
  /\ Cardinality(StoredKeys) = 1
  /\ Cardinality(DOMAIN market_price_extremes) = 1

\* C6 as stated: each extremes record equals the record obtained by replaying
\* the stored observations of its key in ascending timestamp order.
C6_ReplayInTimestampOrder ==
  \A k \in DOMAIN market_price_extremes :
    market_price_extremes[k] = Replay(SortByTimestamp(RowsOfKey(k)))[k]

\* C6 amended: each extremes record equals the record obtained by replaying
\* the stored observations of its key in the order they were inserted, which
\* is the ascending timestamp order when they were inserted in that order.
C6_ReplayInInsertionOrder ==
  \A k \in StoredKeys :
    /\ k \in DOMAIN market_price_extremes
    /\ market_price_extremes[k] = Replay(RowsOfKey(k))[k]
    /\ InsertedInTimestampOrder(k) =>
         market_price_extremes[k] = Replay(SortByTimestamp(RowsOfKey(k)))[k]

\* C6 witness: a key with two observations inserted against their timestamps,
\* after a write that skipped a row on conflict.
C6_Witness ==
  \E k \in StoredKeys :
    /\ Len(RowsOfKey(k)) = 2
    /\ ~InsertedInTimestampOrder(k)
    /\ lastWrite.skipped > 0

-----------------------------------------------------------------------------
(* Properties of the quote client and the collection run *)

IsRateLimit(r) == r.kind = "http" /\ r.status = 429

\* A rejected fetch, or a status outside 200..299 other than 429.
IsFailure(r) ==
  \/ r.kind = "error"
  \/ r.kind = "http" /\ (r.status < 200 \/ r.status > 299) /\ r.status # 429

IsDecimal(v) == v.kind = "string" /\ v.text = "decimal"

\* A 200 response none of whose fields price and mid holds a decimal.
IsMalformed(r) ==
  /\ r.kind = "http" /\ r.status = 200
  /\ r.body.valid => ~IsDecimal(r.body.price) /\ ~IsDecimal(r.body.mid)

LastResponse == attempts[Len(attempts)].response

\* The step on which the pending request is answered.
Answered == pc = "fetch" /\ pc' # "fetch"

\* The request counts as one failure and leaves the batch alone.
CountedAsFailure ==
  /\ pc' = "delay"
  /\ requestCount' = requestCount + 1
  /\ failureCount' = failureCount + 1
  /\ successCount' = successCount
  /\ priceRecords' = priceRecords

\* C7: a 429 is never counted: the request is sent again, once per 429 and
\* not before 30 s have passed, the same token each time, and the run counts
\* the request once, by the first response that is not a 429.  429 then 200
\* with a price for the first request gives one observation, one counted
\* request and no failure.
C7_RateLimitRetried ==
  /\ [](pc \in {"fetch", "cooldown", "delay"} =>
          LET n == Len(attempts) IN
          /\ n >= 1
          /\ \A i \in 1..n :
               attempts[i].tokenId = GameRequests(activeGames)[cursor].tokenID
          /\ \A i \in 1..(n - 1) :
               /\ IsRateLimit(attempts[i].response)
               /\ attempts[i + 1].sentAt - attempts[i].sentAt >= 30000
          /\ pc = "fetch" => LastResponse = Pending
          /\ pc = "cooldown" => IsRateLimit(LastResponse)
          /\ pc = "delay" => LastResponse # Pending /\ ~IsRateLimit(LastResponse)
          /\ requestCount = IF pc = "delay" THEN cursor ELSE cursor - 1
          /\ successCount + failureCount = requestCount
          /\ Len(priceRecords) = successCount
          /\ (pc = "delay" /\ cursor = 1 /\ n = 2 /\ LastResponse.status = 200
                /\ LastResponse.body.valid /\ IsDecimal(LastResponse.body.price))
             => /\ Len(priceRecords) = 1
                /\ priceRecords[1].price = LastResponse.body.price.digits
                /\ requestCount = 1
                /\ failureCount = 0)
  /\ [][Answered /\ IsRateLimit(LastResponse') =>
          /\ pc' = "cooldown"
          /\ Len(attempts') = Len(attempts)
          /\ UNCHANGED <<priceRecords, requestCount, successCount, failureCount>>]_vars
  /\ [][pc = "cooldown" /\ pc' # "cooldown" =>
          /\ pc' = "fetch"
          /\ Len(attempts') = Len(attempts) + 1
          /\ now' - now >= 30000]_vars

C7_Witness ==
  /\ pc = "delay" /\ cursor = 1
  /\ Len(attempts) = 2
  /\ IsRateLimit(attempts[1].response)
  /\ attempts[2].response = Http(200, Body(Decimal(1), Undefined))
  /\ attempts[2].sentAt - attempts[1].sentAt >= 30000
  /\ Len(priceRecords) = 1 /\ requestCount = 1 /\ failureCount = 0

\* C8: a rejected fetch and a bad status other than 429 count the request as
\* one failure, append nothing, and the run goes on to its next request; the
\* run raises only from the games query and from the batch write.
C8_FetchFailureCounted ==
  /\ [][Answered /\ IsFailure(LastResponse') => CountedAsFailure]_vars
  /\ [][pc' = "raised" => pc \in {"raised", "getActiveGames", "batchInsertPrices"}]_vars
  /\ [][pc = "delay" /\ pc' # "delay" =>
          pc' = IF cursor < Len(GameRequests(activeGames)) THEN "fetch"
                ELSE IF Len(priceRecords) > 0 THEN "batchInsertPrices"
                ELSE "returned"]_vars

C8_Witness ==
  /\ pc = "batchInsertPrices" /\ cursor = 3
  /\ LastResponse = NetworkError
  /\ requestCount = 2 /\ failureCount = 1 /\ Len(priceRecords) = 1

\* C9: a 200 response without a decimal in price or mid (a field missing,
\* null, empty or not a number, or a body that is not JSON) counts the request
\* as one failure and appends no observation.
C9_MalformedPriceIsAbsent ==
  [][Answered /\ IsMalformed(LastResponse') => CountedAsFailure]_vars

-----------------------------------------------------------------------------
(* Properties of the liveness query *)

ListedIds == {activeGames[i].id : i \in 1..Len(activeGames)}

IdsOf(rows) == {g.id : g \in rows}

-----------------------------------------------------------------------------
(* Properties of a whole run *)

\* The games query of the run has answered.
Listed == pc # "getActiveGames" /\ ~(pc = "raised" /\ activeGames = <<>>)

\* NOW() of the games query: the clock stands still when nothing is listed,
\* and the run's timestamp is taken as the query answers.
QueryTime == IF activeGames = <<>> THEN now ELSE timestamp

\* The token IDs in the markets column of a games row.
TokensOfGame(g) ==
  UNION {{g.markets[m].outcomes[o].tokenID : o \in DOMAIN g.markets[m].outcomes} :
           m \in DOMAIN g.markets} \ {NULL}

RequestedTokens == {attempts[i].tokenId : i \in DOMAIN attempts}

\* C11: a game not closed that starts more than 48 hours after the query is
\* not listed, no price of it is requested or collected or stored in the run;
\* a game not closed that starts less than 48 hours after the query is listed.
C11_HorizonOf48Hours ==
  \A g \in games :
    ~g.closed =>
      /\ g.start_date - QueryTime > 48 * HOUR =>
           /\ g.id \notin ListedIds
           /\ TokensOfGame(g) \cap RequestedTokens = {}
           /\ \A i \in DOMAIN priceRecords : priceRecords[i].tokenId \notin TokensOfGame(g)
           /\ \A i \in DOMAIN market_prices : market_prices[i].token_id \notin TokensOfGame(g)
      /\ (Listed /\ g.start_date > QueryTime /\ g.start_date - QueryTime < 48 * HOUR) =>
           g.id \in ListedIds

C11_Witness ==
  /\ pc = "returned"
  /\ \E g \in games : ~g.closed /\ g.start_date - QueryTime = 72 * HOUR /\ g.id = 1
  /\ \E g \in games : ~g.closed /\ g.start_date - QueryTime = 40 * HOUR /\ g.id = 2
  /\ ListedIds = {2}
  /\ Len(market_prices) = 1 /\ market_prices[1].token_id = "t2"

-----------------------------------------------------------------------------
(* Properties of the frequency decision *)

\* Not closed and starting less than 48 hours from now.
Qualifying == {g \in games : ~g.closed /\ g.start_date - now < 48 * HOUR}

\* C12: the decision is high frequency exactly when a qualifying game has
\* started or starts within 10 minutes; with no qualifying game it is low
\* frequency, the reason is "No upcoming games" and there is no next start;
\* a low frequency decision with a qualifying game names the earliest start.
C12_FrequencyDecision ==
  (spc = "collectPrices" /\ pc = "getActiveGames") =>
    /\ frequencyCheck.highFrequency <=>
         \E g \in Qualifying :
           \/ g.start_date <= now
           \/ (g.start_date > now /\ g.start_date - now <= 10 * 60 * 1000)
    /\ Qualifying = {} =>
         /\ ~frequencyCheck.highFrequency
         /\ frequencyCheck.reason = "No upcoming games"
         /\ frequencyCheck.nextGameStart = <<>>
    /\ (~frequencyCheck.highFrequency /\ Qualifying # {}) =>
         /\ frequencyCheck.reason = "Next game starts at"
         /\ \E g \in Qualifying : frequencyCheck.nextGameStart = <<g.start_date>>
         /\ \A g \in Qualifying : frequencyCheck.nextGameStart[1] <= g.start_date

C12_Witness ==
  /\ spc = "collectPrices"
  /\ frequencyCheck.highFrequency
  /\ frequencyCheck.reason = "game(s) starting within 10 minutes"
  /\ \E g \in games : ~g.closed /\ g.start_date - now = 10 * 60 * 1000
  /\ \E g \in games : g.closed /\ g.start_date <= now

-----------------------------------------------------------------------------
(* Properties of the run's summary, failures and pacing *)

\* The summary collectPrices logs: Games processed and Prices stored.
gamesProcessed == Len(activeGames)
priceRecordsStored == Len(priceRecords)

\* The games the query lists, from the table.
ListedGames == {g \in games : ~g.closed /\ g.start_date - QueryTime < 48 * HOUR}

\* The outcomes with a token ID in the moneyline markets of the listed games.
OutcomesWithToken ==
  UNION {UNION {{<<g.id, m, o>> :
                   o \in {x \in DOMAIN g.markets[m].outcomes :
                            g.markets[m].outcomes[x].tokenID # NULL}} :
                m \in {y \in DOMAIN g.markets :
                         g.markets[y].sportsMarketType = "moneyline"}} :
         g \in ListedGames}

\* The games query has answered and no outcome of the listed games has a
\* token in a moneyline market.
NothingToRequest == Listed /\ OutcomesWithToken = {}

\* No request, no write, no raise, and zero counts.
NoRequestNoWrite ==
  /\ pc = "returned"
  /\ attempts = <<>>
  /\ market_prices = <<>> /\ market_price_extremes = <<>> /\ lastWrite = NoWrite
  /\ requestCount = 0 /\ successCount = 0 /\ failureCount = 0
  /\ priceRecordsStored = 0

\* C13 as stated: a run with nothing to request makes no request and no
\* write, does not raise, and all five counts are 0.
C13_NothingToRequestAllZero ==
  NothingToRequest => NoRequestNoWrite /\ gamesProcessed = 0

\* C13, amended: a run with nothing to request makes no request and no
\* write, does not raise, and its request, success, failure and stored
\* counts are 0; games processed is the number of listed games.
C13_NothingToRequestNoWrite ==
  NothingToRequest =>
    NoRequestNoWrite /\ gamesProcessed = Cardinality(ListedGames)

C13_Witness ==
  /\ NothingToRequest
  /\ gamesProcessed = 1
  /\ \E g \in games : Len(g.markets) = 3

\* C14: when a run with listed games has returned, games processed is the
\* number of listed games, the request count is the number of outcomes with
\* a token ID, requests are successes plus failures, and prices stored is the
\* success count and the length of the batch handed to the store.
C14_SummaryCounts ==
  (pc = "returned" /\ gamesProcessed > 0) =>
    /\ gamesProcessed = Cardinality(ListedGames)
    /\ requestCount = Cardinality(OutcomesWithToken)
    /\ requestCount = successCount + failureCount
    /\ priceRecordsStored = successCount
    /\ successCount > 0 =>
         /\ lastWrite.op = "collectPrices"
         /\ Len(market_prices) + lastWrite.skipped = successCount
    /\ successCount = 0 => lastWrite = NoWrite

C14_Witness ==
  /\ pc = "returned"
  /\ gamesProcessed = 2 /\ requestCount = 3 /\ successCount = 2
  /\ failureCount = 1 /\ priceRecordsStored = 2
  /\ Len(market_prices) = 2
  /\ market_prices[1].price = 0 /\ market_prices[2].price = 1
  /\ DOMAIN market_price_extremes = {<<"c1", "t1">>, <<"c1", "t2">>}
  /\ \A k \in DOMAIN market_price_extremes :
       /\ market_price_extremes[k].lowest_price = market_price_extremes[k].current_price
       /\ market_price_extremes[k].highest_price = market_price_extremes[k].current_price

\* C15: the run raises only out of the games query or the batch write, and
\* out of the batch write it raises exactly when nothing was written; a
\* request that fails is followed by the requests left, so a run that has
\* passed its loops has requested every outcome, however many failed.
C15_RaisesOnlyOnQueryOrWrite ==
  /\ [][pc' = "raised" /\ pc # "raised" =>
          \/ pc = "getActiveGames" /\ activeGames' = <<>>
          \/ pc = "batchInsertPrices" /\ lastWrite' = lastWrite]_vars
  /\ [][pc = "batchInsertPrices" /\ pc' = "returned" =>
          lastWrite'.op = "collectPrices"]_vars
  /\ [](pc \in {"returned", "batchInsertPrices"} /\ activeGames # <<>> =>
          /\ requestCount = Len(GameRequests(activeGames))
          /\ cursor = requestCount + 1)
  /\ [](pc \in {"fetch", "cooldown", "delay"} /\ failureCount > 0 =>
          cursor <= Len(GameRequests(activeGames)))

C15_Witness ==
  /\ pc = "returned"
  /\ requestCount = 3 /\ failureCount = 3 /\ successCount = 0
  /\ lastWrite = NoWrite

\* C16: a request starts at least 667 ms after the start of the request
\* before it (a delay lies before every request that has a predecessor), and
\* at that spacing no more than 90 requests start within 60 s.
C16_RequestsSpaced ==
  /\ [][(pc = "delay" \/ pc = "cooldown") /\ pc' = "fetch" =>
          /\ attempts'[Len(attempts')].sentAt = now'
          /\ now' - attempts[Len(attempts)].sentAt >= 667]_vars
  /\ [](pc = "fetch" => attempts[Len(attempts)].sentAt = now)
  /\ []((60000 + 667 - 1) \div 667 <= 90)

C16_Witness ==
  /\ pc = "fetch" /\ cursor = 3
  /\ rateLimited = 0
  /\ now - timestamp = 2 * 667

-----------------------------------------------------------------------------
(* Properties of the scheduler loop and of the process *)

\* No signal and no fatal error has reached the process.
Undisturbed == closeCalls = 0

\* C17: in continuous mode a failed cycle never ends the scheduler.  A run
\* that raised is caught (the loop goes to its one minute wait and the
\* process goes on), a process that no signal or fatal error has reached is
\* running, the wait lasts 60000 ms and the next cycle starts right after it,
\* and every cycle short of the last one explored is followed by another
\* unless a signal or a fatal error arrives.
C17_FailedCycleIsRetried ==
  /\ [][pc = "raised" /\ pc' # "raised" /\ exitCode' = NoExit
          => spc' = "retry"]_vars
  /\ [](Undisturbed => Running)
  /\ [][spc = "retry" /\ spc' # "retry" /\ exitCode' = NoExit
          => /\ now' = now + 60000
             /\ runCount' = runCount + 1
             /\ cycleStart' = now'
             /\ spc' = "shouldUseHighFrequency"]_vars
  /\ \A n \in 1..(MaxCycles - 1) :
        (runCount = n) ~> (runCount = n + 1 \/ ~Undisturbed)

\* The second cycle has started one minute after the batch write of the
\* first one raised (one request, one delay, then the failed write).
C17_Witness ==
  /\ runCount = 2
  /\ Undisturbed
  /\ spc = "shouldUseHighFrequency"
  /\ cycleStart = DELAY_BETWEEN_REQUESTS + 60000
  /\ now = cycleStart

\* A shutdown signal has been delivered and its handler has not yet exited.
SignalPending == \E i \in 1..Len(closing) : closing[i].route \in Signals

\* C18: when a shutdown signal arrives during a run, the quote request in
\* flight completes before the process exits, and between the signal and the
\* exit no further quote request is started and no batch write is attempted.
C18_SignalLetsRequestComplete ==
  [][/\ (exitCode = NoExit /\ exitCode' # NoExit /\ exitRoute' \in Signals)
          => pc # "fetch"
     /\ (SignalPending /\ spc = "collectPrices")
          => /\ ~(pc # "fetch" /\ pc' = "fetch")
             /\ ~(pc # "batchInsertPrices" /\ pc' = "batchInsertPrices")]_vars

\* The routes by which the continuous-mode process exits.
ExitRoutes == Signals \cup FatalErrors \cup {"scheduler"}

\* C19: the continuous-mode process exits only from a handler whose close()
\* call has settled: at the exit close() has been called at least once, the
\* pool is no longer open (pool.end() has run), the exit is the end of a
\* pending close() of the route that exits, and the code is 0 exactly on the
\* signal routes.
C19_ExitAfterClose ==
  /\ [](exitCode # NoExit
          => /\ closeCalls >= 1
             /\ pool \in {"ending", "ended"}
             /\ exitRoute \in ExitRoutes
             /\ (exitCode = 0 <=> exitRoute \in Signals)
             /\ (exitCode = 0 => pool = "ended"))
  /\ [][exitCode = NoExit /\ exitCode' # NoExit
          => \E i \in 1..Len(closing) :
                /\ closing[i].route = exitRoute'
                /\ closing' = Remove(closing, i)]_vars

\* A second signal while the first close() waits for a query: its close()
\* is rejected, the rejection handler calls close() a third time, and the
\* process exits with 1 while the pool is still ending.
C19_Witness ==
  /\ exitCode = 1
  /\ exitRoute = "unhandledRejection"
  /\ closeCalls = 3
  /\ pool = "ending"

\* C20: in one-shot mode the process ends with the pool released: close()
\* has been called and the pool has ended whenever the process has exited,
\* with a code other than 0 when the run raised and 0 when it returned.
C20_OneShotReleasesPool ==
  exitCode # NoExit
    => /\ closeCalls >= 1
       /\ pool = "ended"
       /\ (exitRoute = "catch" => exitCode # 0)
       /\ (exitRoute = "main" => exitCode = 0)

-----------------------------------------------------------------------------
(* Properties of prices outside 0..1 *)

\* The batch write of the run returns, or raises.
WriteReturns == pc = "batchInsertPrices" /\ pc' = "returned"
WriteRaises == pc = "batchInsertPrices" /\ pc' = "raised"

\* The extremes record of the i-th stored row holds price as its lowest, its
\* highest and its current price (the row is the only one of its key).
ExtremesFrom(i, price) ==
  LET k == KeyOf(market_prices'[i]) IN
  /\ k \in DOMAIN market_price_extremes'
  /\ market_price_extremes'[k].lowest_price = price
  /\ market_price_extremes'[k].highest_price = price
  /\ market_price_extremes'[k].current_price = price

\* A decimal under price or mid is put in the batch as it was received.
BatchedAsReceived ==
  (Answered /\ pc' = "delay") =>
    /\ Len(priceRecords') = Len(priceRecords) + 1
    /\ priceRecords'[Len(priceRecords')].price = PriceOrMid(LastResponse'.body).digits

\* C21 as stated: a price outside 0..1 is stored as received, with the
\* extremes updated from that value, or the write is rejected; it is never
\* replaced by another value.
C21_OutOfRangeStoredAsReceived ==
  [][/\ BatchedAsReceived
     /\ WriteReturns =>
          /\ Len(market_prices') = Len(priceRecords)
          /\ \A i \in 1..Len(priceRecords) :
               /\ market_prices'[i].price = priceRecords[i].price
               /\ ExtremesFrom(i, priceRecords[i].price)
     /\ WriteRaises => UNCHANGED <<market_prices, market_price_extremes>>]_vars

\* What the column holds for a price of the batch: the price itself when it
\* has no more than 8 decimals, 1 for 1.000000004.
AsStored(x) ==
  CASE x = 1 -> 1
    [] x = 150000000 -> 150000000
    [] x = 0 - 50000000 -> 0 - 50000000
    [] x = JustAboveOne -> 100000000

\* C21, amended: a price outside 0..1 is never clamped.  It is put in the
\* batch as received; the write stores it rounded to the 8 decimals of the
\* column, which is the received value when it has no more, and updates the
\* extremes from the stored value; a price the column cannot hold (1e10)
\* makes the write raise, and a write that raises stores nothing.
C21_OutOfRangeStoredRounded ==
  [][/\ BatchedAsReceived
     /\ WriteReturns =>
          /\ \A i \in 1..Len(priceRecords) : priceRecords[i].price # TenBillion
          /\ Len(market_prices') = Len(priceRecords)
          /\ \A i \in 1..Len(priceRecords) :
               /\ market_prices'[i].price = AsStored(priceRecords[i].price)
               /\ ExtremesFrom(i, AsStored(priceRecords[i].price))
     /\ WriteRaises => UNCHANGED <<market_prices, market_price_extremes>>]_vars

\* 1.5 and 1.000000004 were fetched and written: 1.5 is stored as it is and
\* is the highest price of its key, 1.000000004 is stored as 1.
C21_Witness ==
  /\ pc = "returned"
  /\ Len(priceRecords) = 2
  /\ priceRecords[1].price = ONE + ONE \div 2
  /\ priceRecords[2].price = JustAboveOne
  /\ Len(market_prices) = 2
  /\ market_prices[1].price = 150000000
  /\ market_prices[2].price = 100000000
  /\ market_price_extremes[<<"c1", "t1">>].highest_price = 150000000

-----------------------------------------------------------------------------
(* Properties of the fields price and mid *)

\* The field is in the response.
Present(v) == v # Undefined

\* The request yields value: it counts as a success and value is put in the batch.
Yields(value) ==
  /\ pc' = "delay"
  /\ successCount' = successCount + 1
  /\ failureCount' = failureCount
  /\ Len(priceRecords') = Len(priceRecords) + 1
  /\ priceRecords'[Len(priceRecords')].price = value

\* C22: price and mid are equivalent.  A success response with a decimal
\* under price or under mid yields that decimal (the one under price when
\* both hold one), and the fetched price is absent only when neither field is
\* present.
C22_PriceAndMidEquivalent ==
  [][(Answered /\ LastResponse'.body.valid) =>
       LET price == LastResponse'.body.price
           mid == LastResponse'.body.mid
       IN /\ IsDecimal(price) => Yields(price.digits)
          /\ (IsDecimal(mid) /\ ~IsDecimal(price)) => Yields(mid.digits)
          /\ CountedAsFailure => (~Present(price) /\ ~Present(mid))]_vars

-----------------------------------------------------------------------------
(* Further properties of the price store *)

\* The observation of key k stored last.
LastRowOfKey(k) == RowsOfKey(k)[Len(RowsOfKey(k))]

\* C23: the current price and its timestamp of every extremes record are
\* those of the observation of its key that was inserted last, whatever the
\* timestamps of the observations inserted before it; every applied insert
\* therefore leaves its own price and timestamp as the current ones.
C23_CurrentIsLastInserted ==
  \A k \in StoredKeys :
    /\ k \in DOMAIN market_price_extremes
    /\ market_price_extremes[k].current_price = LastRowOfKey(k).price
    /\ market_price_extremes[k].current_price_timestamp = LastRowOfKey(k).timestamp

\* An observation with an earlier timestamp and another price was inserted
\* after one with a later timestamp: the current price is the earlier one's.
C23_Witness ==
  \E k \in StoredKeys :
    /\ Len(RowsOfKey(k)) = 2
    /\ RowsOfKey(k)[1].timestamp = 2 /\ RowsOfKey(k)[2].timestamp = 1
    /\ RowsOfKey(k)[1].price # RowsOfKey(k)[2].price
    /\ market_price_extremes[k].current_price_timestamp = 1
    /\ market_price_extremes[k].current_price = RowsOfKey(k)[2].price

\* The rows a step adds to the observation relation.
Appended == SubSeq(market_prices', Len(market_prices) + 1, Len(market_prices'))

\* C24: a write changes the extremes relation by the trigger applied to the
\* rows it actually inserted, in order, and by nothing else: a row skipped on
\* conflict leaves every record as it was, and a batch delivered a second
\* time, all of whose rows are skipped, leaves the whole relation unchanged
\* whatever prices its rows carry.
C24_SkippedRowLeavesExtremes ==
  [][/\ market_price_extremes' = ReplayFrom(market_price_extremes, Appended)
     /\ Appended = <<>> => market_price_extremes' = market_price_extremes
     /\ lastWrite'.op = "redelivery" =>
          /\ Appended = <<>>
          /\ market_price_extremes' = market_price_extremes]_vars

\* A batch of two rows with one key and timestamp and the prices 0 and 1 was
\* delivered to the empty store: the second row was skipped, and the record
\* of the key holds 0 as lowest, highest and current price.
C24_Witness ==
  /\ lastWrite.op = "delivery"
  /\ lastWrite.skipped = 1
  /\ Len(redelivery) = 2
  /\ redelivery[1].price = 0 /\ redelivery[2].price = 1
  /\ Len(market_prices) = 1
  /\ market_price_extremes[KeyOf(market_prices[1])].lowest_price = 0
  /\ market_price_extremes[KeyOf(market_prices[1])].highest_price = 0
  /\ market_price_extremes[KeyOf(market_prices[1])].current_price = 0

\* Some stored observation of key k has this price and this timestamp.
Observed(k, price, ts) ==
  \E i \in 1..Len(RowsOfKey(k)) :
    RowsOfKey(k)[i].price = price /\ RowsOfKey(k)[i].timestamp = ts

\* C25: the insert of a row and the update of the extremes it triggers
\* happen together or not at all.  In every state, also after a write that
\* failed part way, every stored observation has an extremes record of its
\* key whose lowest and highest price enclose its price, and which holds it as
\* the current price when it is the last of its key; every extremes record
\* holds as lowest, highest and current price the price and timestamp of a
\* stored observation of its key; and a failed write leaves both relations
\* as they were.
C25_RowAndExtremesTogether ==
  /\ [](/\ \A i \in 1..Len(market_prices) :
             LET r == market_prices[i]
                 k == KeyOf(r)
             IN /\ k \in DOMAIN market_price_extremes
                /\ ~PgLess(r.price, market_price_extremes[k].lowest_price)
                /\ ~PgLess(market_price_extremes[k].highest_price, r.price)
                /\ r = LastRowOfKey(k) =>
                     market_price_extremes[k].current_price = r.price
        /\ \A k \in DOMAIN market_price_extremes :
             LET e == market_price_extremes[k] IN
             /\ Observed(k, e.lowest_price, e.lowest_price_timestamp)
             /\ Observed(k, e.highest_price, e.highest_price_timestamp)
             /\ Observed(k, e.current_price, e.current_price_timestamp))
  /\ [][lastWrite'.op = "failed" =>
          UNCHANGED <<market_prices, market_price_extremes>>]_vars

\* A write of two rows failed at the trigger of its second row, after a
\* write that had stored a row: both rows were undone.
C25_Witness ==
  /\ lastWrite.op = "failed"
  /\ lastWrite.undone = 2
  /\ Len(market_prices) = 1
  /\ DOMAIN market_price_extremes = {KeyOf(market_prices[1])}

\* The lowest and highest price of every extremes record.
LowestHighest(mpe) ==
  [k \in DOMAIN mpe |-> <<mpe[k].lowest_price, mpe[k].highest_price>>]

\* prices in the order perm, a permutation of its indices.
Permuted(prices, perm) == [i \in 1..Len(prices) |-> prices[perm[i]]]

\* The lowest and highest prices that writing the batch just written would
\* have given, had its rows come in the order perm.
SameLowestHighest(perm) ==
  LowestHighest(batchInsertPricesResult(Store, Permuted(redelivery', perm))
                  .market_price_extremes)
    = LowestHighest(market_price_extremes')

\* No two rows of the batch share (condition_id, token_id, timestamp).
DistinctRows(prices) ==
  \A i, j \in 1..Len(prices) :
    (/\ prices[i].conditionId = prices[j].conditionId
     /\ prices[i].tokenId = prices[j].tokenId
     /\ prices[i].timestamp = prices[j].timestamp) => i = j

\* C26 as stated: for any batch and any prior state of the store, the lowest
\* and highest prices after the write are the same for every order of the
\* batch's rows.
C26_AnyBatchAnyOrder ==
  [][lastWrite'.op = "delivery" =>
       \A perm \in Permutations(1..Len(redelivery')) : SameLowestHighest(perm)]_vars

\* C26, amended: for any prior state of the store and any batch no two rows
\* of which share (condition_id, token_id, timestamp), the lowest and highest
\* prices after the write are the same for every order of the batch's rows.
C26_DistinctRowsAnyOrder ==
  [][(lastWrite'.op = "delivery" /\ DistinctRows(redelivery')) =>
       \A perm \in Permutations(1..Len(redelivery')) : SameLowestHighest(perm)]_vars

\* A batch of two rows of one key with the timestamps 2 and 1 and the prices
\* 1 and 0 was written over a stored row of that key.
C26_Witness ==
  /\ lastWrite.op = "delivery"
  /\ Len(redelivery) = 2
  /\ DistinctRows(redelivery)
  /\ redelivery[1].tokenId = redelivery[2].tokenId
  /\ redelivery[1].timestamp = 2 /\ redelivery[2].timestamp = 1
  /\ redelivery[1].price = 1 /\ redelivery[2].price = 0
  /\ lastWrite.skipped = 1
  /\ Len(market_prices) = 2
  /\ Cardinality(StoredKeys) = 1


\* C27: in every state, the timestamp an extremes record holds for its lowest
\* price is the timestamp of a stored observation of the record's key whose
\* price is that lowest price, and the timestamp it holds for its highest
\* price is the timestamp of a stored observation of the key whose price is
\* that highest price.
C27_ExtremeTimestampsObserved ==
  \A k \in DOMAIN market_price_extremes :
    /\ Observed(k, market_price_extremes[k].lowest_price,
                   market_price_extremes[k].lowest_price_timestamp)
    /\ Observed(k, market_price_extremes[k].highest_price,
                   market_price_extremes[k].highest_price_timestamp)

\* A key has two stored observations, the later one inserted first, and the
\* second row inserted lowered the lowest price without touching the highest:
\* the two timestamps of the record differ, and the timestamp of the highest
\* price is not that of the row inserted last.
C27_Witness ==
  \E k \in DOMAIN market_price_extremes :
    /\ Len(RowsOfKey(k)) = 2
    /\ RowsOfKey(k)[1].timestamp = 2
    /\ RowsOfKey(k)[2].timestamp = 1
    /\ market_price_extremes[k].lowest_price_timestamp = 1
    /\ market_price_extremes[k].highest_price_timestamp = 2
    /\ market_price_extremes[k].lowest_price = 0
    /\ market_price_extremes[k].highest_price = 1


(***************************************************************************)
(* Properties of the batch of a run                                        *)
(***************************************************************************)

\* C28: the batch a run assembles never holds two observations with the same
\* (conditionId, tokenId, timestamp), whatever the games table lists, and the
\* run's write to the empty store skips none of the batch's rows.
C28_BatchRowsDistinct ==
  /\ DistinctRows(priceRecords)
  /\ lastWrite.op = "collectPrices" => lastWrite.skipped = 0


\* C29: every observation in the batch carries the run's one timestamp and
\* the source "rest".  The timestamp is taken when getActiveGames has
\* answered with at least one game, no request is sent before it, and no
\* later step of the run changes it, however much time the delays and the
\* cooldowns take.
C29_OneTimestampPerRun ==
  /\ [](\A i \in 1..Len(priceRecords) :
          /\ priceRecords[i].timestamp = timestamp
          /\ priceRecords[i].source = "rest")
  /\ [](\A i \in 1..Len(attempts) : attempts[i].sentAt >= timestamp)
  /\ [][IF pc = "getActiveGames" /\ Len(activeGames') > 0
        THEN timestamp' = now
        ELSE timestamp' = timestamp]_vars

\* A run started at time 1 has two observations in its batch, one request
\* was answered 429 and repeated after the cooldown: the clock is more than
\* 30 seconds past the start, and both observations carry time 1.
C29_Witness ==
  /\ Len(priceRecords) = 2
  /\ rateLimited >= 1
  /\ now >= 1 + RATE_LIMIT_WAIT
  /\ timestamp = 1
  /\ priceRecords[1].timestamp = 1
  /\ priceRecords[2].timestamp = 1


\* Every request of the run has been sent and answered.
AllRequested ==
  /\ cursor > Len(GameRequests(activeGames))
  /\ \A i \in 1..Len(attempts) : attempts[i].response # Pending

\* The step changes a relation of the store or counts as a write.
StoreWritten ==
  \/ market_prices' # market_prices
  \/ market_price_extremes' # market_price_extremes
  \/ lastWrite' # lastWrite

\* C30: a run writes the store at most once, in the step that ends it, after
\* every request of the run has been sent and answered and with a batch that
\* holds a record; while requests are outstanding nothing of the run is
\* stored; and when the loops end, the write is issued exactly when the batch
\* holds a record: a run that returns without having written found no game
\* or collected no price.
C30_OneWriteAfterLastFetch ==
  /\ [][StoreWritten =>
          /\ pc = "batchInsertPrices" /\ pc' = "returned"
          /\ AllRequested
          /\ Len(priceRecords) > 0
          /\ lastWrite = NoWrite]_vars
  /\ [](pc = "batchInsertPrices" => AllRequested /\ Len(priceRecords) > 0)
  /\ [](~AllRequested => market_prices = <<>> /\ lastWrite = NoWrite)
  /\ []((pc = "returned" /\ lastWrite = NoWrite) =>
          Len(activeGames) = 0 \/ (AllRequested /\ Len(priceRecords) = 0))
  /\ []((pc = "returned" /\ Len(priceRecords) > 0) =>
          lastWrite.op = "collectPrices")

\* A run of three requests, one of them failed, has returned: its two
\* observations were stored by its one write.
C30_Witness ==
  /\ pc = "returned"
  /\ requestCount = 3
  /\ failureCount = 1
  /\ Len(priceRecords) = 2
  /\ lastWrite.op = "collectPrices"
  /\ Len(market_prices) = 2


(***************************************************************************)
(* Properties of the order of requests and runs                            *)
(***************************************************************************)

\* The attempts sent and not yet answered.
InFlight == {i \in 1..Len(attempts) : attempts[i].response = Pending}

\* A run has been called and has not returned or raised to the scheduler.
RunInProgress ==
  \/ pc = "getActiveGames"
  \/ pc = "fetch"
  \/ pc = "cooldown"
  \/ pc = "delay"
  \/ pc = "batchInsertPrices"

\* The step sends an attempt.
Sends ==
  /\ attempts' # attempts
  /\ attempts' # <<>>
  /\ attempts'[Len(attempts')].response = Pending

\* C31: at most one attempt is unanswered at any time, an attempt is sent only
\* when every earlier one has been answered, and the loops go on to the next
\* outcome only from the delay after an answer that is not 429; while a run
\* is in progress the scheduler is awaiting it, a run is called only when
\* none is in progress, and a cycle begins only when the run of the cycle
\* before has returned or raised.
C31_OneRequestOneRun ==
  /\ [](Cardinality(InFlight) <= 1)
  /\ [](RunInProgress => spc = "collectPrices")
  /\ [][Sends => InFlight = {}]_vars
  /\ [][(cursor' = cursor + 1 /\ cursor >= 1) =>
          /\ pc = "delay"
          /\ ~fetchTokenPriceOn(attempts[Len(attempts)].response).retry]_vars
  /\ [][(pc' = "getActiveGames" /\ pc # "getActiveGames") => ~RunInProgress]_vars
  /\ [][runCount' # runCount => ~RunInProgress /\ pc' = "idle"]_vars

\* In the second cycle the run's second request, answered 429 once, has been
\* sent again and is the one attempt unanswered.
C31_Witness ==
  /\ runCount = 2
  /\ pc = "fetch"
  /\ cursor = 2
  /\ Len(attempts) = 2
  /\ InFlight = {2}


\* The token IDs of the outcomes in the moneyline markets of the table.
MoneylineTokens ==
  UNION {UNION {{g.markets[m].outcomes[o].tokenID : o \in DOMAIN g.markets[m].outcomes} :
                m \in {y \in DOMAIN g.markets :
                         g.markets[y].sportsMarketType = "moneyline"}} :
         g \in games} \ {NULL}

\* C32: every request is for the token of an outcome in a moneyline market,
\* and every record in the batch names such a token; the requests of a run
\* are the outcomes with a token ID in the moneyline markets of the listed
\* games, one each; the request count is the number of requests sent and
\* answered for good and the sum of successes and failures, so an outcome
\* without a token ID counts nowhere; and a run raises after the games query
\* has answered only out of its write, never over a market without an
\* outcome to request.
C32_OnlyMoneylineWithToken ==
  /\ RequestedTokens \subseteq MoneylineTokens
  /\ \A i \in 1..Len(priceRecords) : priceRecords[i].tokenId \in MoneylineTokens
  /\ (Listed /\ pc # "getActiveGames") =>
       Len(GameRequests(activeGames)) = Cardinality(OutcomesWithToken)
  /\ (pc = "fetch" \/ pc = "cooldown") => requestCount = cursor - 1
  /\ pc = "delay" => requestCount = cursor
  /\ requestCount = successCount + failureCount
  /\ (pc = "raised" /\ Listed) => Len(priceRecords) > 0
  /\ NothingToRequest => pc # "raised"

\* A run over a table with a spreads market, a moneyline market without
\* outcomes and a moneyline outcome without a token ID has returned: it made
\* the two requests of the two moneyline outcomes that have a token ID.
C32_Witness ==
  /\ pc = "returned"
  /\ requestCount = 2
  /\ Len(attempts) >= 1
  /\ \E g \in games : \E m \in DOMAIN g.markets :
       g.markets[m].sportsMarketType = "spreads" /\ g.markets[m].outcomes # <<>>
  /\ \E g \in games : \E m \in DOMAIN g.markets :
       g.markets[m].sportsMarketType = "moneyline" /\ g.markets[m].outcomes = <<>>
  /\ \E g \in games : \E m \in DOMAIN g.markets : \E o \in DOMAIN g.markets[m].outcomes :
       g.markets[m].sportsMarketType = "moneyline" /\ g.markets[m].outcomes[o].tokenID = NULL


(***************************************************************************)
(* Properties of the scheduler's sleep                                     *)
(***************************************************************************)

\* The interval of the cycle under way, in ms: 2 minutes after a high
\* frequency decision, 10 minutes otherwise.
IntervalOfCycle == IF frequencyCheck.highFrequency THEN 120000 ELSE 600000

\* C33: the decision taken at the start of a cycle stands while its run is
\* under way; when the run has returned after less than the interval the
\* scheduler sleeps, and the sleep lasts the interval less the duration of
\* the cycle, more than 0, so that the next cycle starts one interval after
\* this one; when the cycle took the interval or more, the next cycle starts
\* at the instant the clock was read, without a sleep.
C33_SleepsRestOfInterval ==
  /\ [][spc = "collectPrices" => frequencyCheck' = frequencyCheck]_vars
  /\ [][(spc = "collectPrices" /\ pc = "returned" /\ spc' # "collectPrices") =>
          IF now' - cycleStart >= IntervalOfCycle
          THEN /\ spc' = "shouldUseHighFrequency"
               /\ runCount' = runCount + 1
               /\ cycleStart' = now'
          ELSE /\ spc' = "sleep"
               /\ cycleStart' = cycleStart]_vars
  /\ [](spc = "sleep" => now - cycleStart < IntervalOfCycle)
  /\ [][(spc = "sleep" /\ spc' = "shouldUseHighFrequency") =>
          /\ now' - now = IntervalOfCycle - (now - cycleStart)
          /\ now' - now > 0
          /\ cycleStart' = cycleStart + IntervalOfCycle]_vars

\* After a high frequency decision the first cycle, with no request answered
\* 429, took more than 10 minutes: the second cycle has started at the
\* instant the run's return was seen.
C33_Witness ==
  /\ runCount = 2
  /\ spc = "shouldUseHighFrequency"
  /\ frequencyCheck # NoCheck
  /\ frequencyCheck.highFrequency
  /\ rateLimited = 0
  /\ cycleStart = now
  /\ cycleStart >= 600000


(***************************************************************************)
(* Properties of the cleanup                                               *)
(***************************************************************************)

\* C34: close() is called at most once in the life of the process, and
\* exactly once when the process has exited, whatever the route.
C34_CloseExactlyOnce ==
  /\ closeCalls <= 1
  /\ exitCode # NoExit => closeCalls = 1


(***************************************************************************)
(* Properties of stored observations and of first_recorded                 *)
(***************************************************************************)

\* C35: a step never removes or changes a stored observation: every row of
\* market_prices is in its place, with every column as it was, after the
\* step, also when the step wrote a row that conflicts with it.
C35_ObservationsNeverChange ==
  [][/\ Len(market_prices') >= Len(market_prices)
     /\ \A i \in 1..Len(market_prices) : market_prices'[i] = market_prices[i]]_vars

\* A batch whose first row has the key and timestamp of the stored row and
\* another price was written: that row was skipped, the stored row holds its
\* price, and the second row of the batch was stored after it.
C35_Witness ==
  /\ lastWrite.op = "delivery"
  /\ lastWrite.skipped = 1
  /\ Len(redelivery) = 2
  /\ Len(market_prices) = 2
  /\ KeyOf(market_prices[1]) = <<redelivery[1].conditionId, redelivery[1].tokenId>>
  /\ market_prices[1].timestamp = redelivery[1].timestamp
  /\ market_prices[1].price = 0
  /\ redelivery[1].price = 1
  /\ market_prices[2].timestamp # market_prices[1].timestamp


(***************************************************************************)
(* Properties of the termination of requests and runs                      *)
(***************************************************************************)

\* The run has returned or raised.
Terminated == pc = "returned" \/ pc = "raised"

\* C36: a call of fetchTokenPrice ends only with an answer other than 429:
\* an answer of 429 leads to the wait and then to the same request again,
\* with no count changed, and the loops go on only after an answer that is
\* not 429; while answers of 429 keep coming the run never ends; and when
\* every request that keeps being sent is at some time answered otherwise,
\* the run ends.
C36_EndsWithFinalAnswer ==
  /\ [][RateLimitedAnswer =>
          /\ pc' = "cooldown" /\ cursor' = cursor
          /\ requestCount' = requestCount /\ failureCount' = failureCount]_vars
  /\ [][pc = "cooldown" => pc' = "fetch" /\ cursor' = cursor]_vars
  /\ [][(pc = "fetch" /\ pc' # "fetch" /\ pc' # "cooldown") =>
          /\ pc' = "delay"
          /\ ~fetchTokenPriceOn(attempts'[Len(attempts')].response).retry]_vars
  /\ []<><<RateLimitedAnswer>>_vars => []~Terminated
  /\ SF_vars(FinalAnswer) => <>Terminated

\* The second request of the run has been answered 429 more often than
\* MaxRateLimits times and is waiting to be sent again.
C36_Witness ==
  /\ pc = "cooldown"
  /\ cursor = 2
  /\ rateLimited = MaxRateLimits + 1
  /\ requestCount = 1


\* C37: a write leaves first_recorded and outcome of every extremes record
\* that exists as they are, and in every state they are the timestamp and
\* the label of the row of the key that was inserted first, whatever the
\* timestamps and labels of the rows inserted after it.
C37_FirstRecordedAndLabelKept ==
  /\ [][\A k \in DOMAIN market_price_extremes :
          /\ market_price_extremes'[k].first_recorded
               = market_price_extremes[k].first_recorded
          /\ market_price_extremes'[k].outcome = market_price_extremes[k].outcome]_vars
  /\ [](\A k \in DOMAIN market_price_extremes :
          /\ market_price_extremes[k].first_recorded = RowsOfKey(k)[1].timestamp
          /\ market_price_extremes[k].outcome = RowsOfKey(k)[1].outcome)

\* A key whose first row has timestamp 2 and label "Yes" got a second row
\* with timestamp 1 and label "No": first_recorded is 2 and the label "Yes",
\* while the current price is that of the second row.
C37_Witness ==
  \E k \in DOMAIN market_price_extremes :
    /\ Len(RowsOfKey(k)) = 2
    /\ RowsOfKey(k)[1].timestamp = 2 /\ RowsOfKey(k)[1].outcome = "Yes"
    /\ RowsOfKey(k)[2].timestamp = 1 /\ RowsOfKey(k)[2].outcome = "No"
    /\ market_price_extremes[k].first_recorded = 2
    /\ market_price_extremes[k].outcome = "Yes"
    /\ market_price_extremes[k].current_price_timestamp = 1


(***************************************************************************)
(* Properties of the two liveness queries together                         *)
(***************************************************************************)

\* C38: on the table and at the instant of a frequency decision, a high
\* frequency decision means that getActiveGames lists at least one game,
\* and when getActiveGames lists none the decision is low frequency, for
\* the reason "No upcoming games" and with no next start.
C38_HighFrequencyHasListedGame ==
  (spc = "collectPrices" /\ pc = "getActiveGames") =>
    \A result \in getActiveGames(games, now) :
      /\ frequencyCheck.highFrequency => Len(result) >= 1
      /\ Len(result) = 0 =>
           /\ ~frequencyCheck.highFrequency
           /\ frequencyCheck.reason = "No upcoming games"
           /\ frequencyCheck.nextGameStart = <<>>

\* Of two games one is closed and one starts within 10 minutes: the
\* decision is high frequency and getActiveGames lists the one game.
C38_Witness ==
  /\ spc = "collectPrices" /\ pc = "getActiveGames"
  /\ frequencyCheck.highFrequency
  /\ Cardinality(games) = 2
  /\ \E g \in games : g.closed /\ g.start_date <= now
  /\ \E g \in games : ~g.closed /\ g.start_date > now
  /\ \A result \in getActiveGames(games, now) : Len(result) = 1

====
